---- MODULE Spec2Model ----
(***************************************************************************)
(* TeachingTools: the question-variation push loop                         *)
(* (CanvasCourse.push_quiz_to_canvas), the fingerprint it dedupes on, the  *)
(* QuestionRegistry, create_assignment_group, the TableGenerator, the      *)
(* rendering pipeline of Question (convert_from_lines_to_text, generate,   *)
(* get__canvas) and CanvasAssignment.push_feedback.                        *)
(***************************************************************************)
EXTENDS Integers, Sequences, FiniteSets, TLC

VARIABLES
  \* ---- push_quiz_to_canvas (canvas_interface.py:103-163)
  num_variations,       \* argument: variations wanted per question
  quiz,                 \* argument: the sequence of Question objects
  pc,                   \* position inside push_quiz_to_canvas
  question_i,           \* index of the question being processed (1-based)
  attempt_number,       \* the inner for loop's counter
  variation_count,      \* accepted variations of the current question
  all_variations,       \* the set of fingerprints seen in this push
  question_for_canvas,  \* payload returned by the last get__canvas
  question_fingerprint, \* fingerprint computed for that payload
  groups,               \* question groups created on the remote quiz, in order
  requests,             \* every create_question call so far: payload and outcome
  generations,          \* history: get__canvas calls made for the current question
  drawn                 \* history: fingerprints generated for the current question

pushVars == <<num_variations, quiz, pc, question_i, attempt_number,
              variation_count, all_variations, question_for_canvas,
              question_fingerprint, groups, requests, generations, drawn>>

VARIABLES
  \* ---- two fingerprint computations side by side (canvas_interface.py:130-136)
  first_call,           \* inputs of one get__canvas call: question, draw, time
  second_call,          \* inputs of another
  first_payload,        \* payload the first call returned
  second_payload,       \* payload the second call returned
  first_fingerprint,    \* question_fingerprint computed for the first payload
  second_fingerprint,   \* question_fingerprint computed for the second payload
  fingerprinted         \* how many of the two have been computed

fingerprintVars == <<first_call, second_call, first_payload, second_payload,
                     first_fingerprint, second_fingerprint, fingerprinted>>

VARIABLES
  \* ---- QuestionRegistry (question.py:86-122)
  registry,             \* QuestionRegistry._registry: lower-cased name -> class
  scanned,              \* QuestionRegistry._scanned
  sys_modules,          \* premade modules already imported by this process
  load_calls,           \* history: runs of load_premade_questions
  create_calls,         \* history: calls of QuestionRegistry.create
  created,              \* the last create: its argument, and a class or ValueError
  registered            \* history: name as given -> class, latest registration
                        \* of each name up to case

registryVars == <<registry, scanned, sys_modules, load_calls, create_calls,
                  created, registered>>

VARIABLES
  \* ---- CanvasCourse.create_assignment_group (canvas_interface.py:63-73)
  course_groups,        \* the course's assignment groups on the remote side
  group_calls           \* history: each call's name, returned group, created?

groupVars == <<course_groups, group_calls>>

VARIABLES
  \* ---- TableGenerator.tex_escape (question.py:32-53)
  tex_text,             \* the text argument, a sequence of characters
  tex_escaped,          \* the returned string
  tex_done              \* whether tex_escape has returned

escapeVars == <<tex_text, tex_escaped, tex_done>>

VARIABLES
  \* ---- TableGenerator.generate (question.py:27-30, 55-83)
  headers,              \* TableGenerator.headers: None or a list of cells
  value_matrix,         \* TableGenerator.value_matrix: rows of cells
  table_format,         \* the output_format argument
  table_output,         \* the returned string
  table_done            \* whether generate has returned

tableVars == <<headers, value_matrix, table_format, table_output, table_done>>

VARIABLES
  \* ---- Question.generate, get__canvas, instantiate (question.py:175-187, 299-328)
  self_class,           \* the Question subclass generate is called on
  self_fields,          \* the instance fields instantiate() sets
  self_answers,         \* self.answers
  gen_format,           \* the output_format argument
  gen_pc,               \* position inside generate
  gen_result,           \* what generate returned: body, explanation, answers
  gen_call,             \* the method called on the Question: generate,
                        \* get__canvas or instantiate
  gen_calls,            \* history: calls made on the Question so far
  instantiate_calls,    \* history: instantiate() calls of the current call
  interesting_results,  \* history: what is_interesting() returned, in order,
                        \* in the current call
  rendered_fields,      \* history: the instance fields the body was rendered of
  previous_answers,     \* history: self.answers before the last instantiate()
  canvas_payload        \* what get__canvas returned

generateVars == <<self_class, self_fields, self_answers, gen_format, gen_pc,
                  gen_result, gen_call, gen_calls, instantiate_calls,
                  interesting_results, rendered_fields, previous_answers,
                  canvas_payload>>

VARIABLES
  \* ---- Question.convert_from_lines_to_text (question.py:247-279)
  conv_lines,           \* the lines argument: markup lines and TableGenerators
  conv_format,          \* the output_format argument
  conv_i,               \* index of the next element of lines (1-based)
  conv_parts,           \* parts
  conv_curr_part,       \* curr_part, the buffer
  conv_body,            \* the returned text
  conv_pc,              \* position inside convert_from_lines_to_text
  converted             \* history: the texts handed to the converter, in order

convertVars == <<conv_lines, conv_format, conv_i, conv_parts, conv_curr_part, conv_body,
                 conv_pc, converted>>

VARIABLES
  \* ---- CanvasAssignment.push_feedback (canvas_interface.py:195-264)
  fb_args,              \* the arguments: score, comments, attachments, flags
  fb_pc,                \* position inside push_feedback
  fb_score,             \* the local score
  fb_i,                 \* index of the next attachment (1-based)
  fb_name,              \* name of the file upload_buffer_as_file is writing
  remote_score,         \* the submission's score on the remote side
  remote_comments,      \* the submission's comments on the remote side
  disk,                 \* names of the files in the working directory
  written               \* history: names upload_buffer_as_file has written

feedbackVars == <<fb_args, fb_pc, fb_score, fb_i, fb_name, remote_score,
                  remote_comments, disk, written>>

otherVars == <<convertVars, feedbackVars>>

\* the variables outside the push, the fingerprints and the registry
restVars == <<groupVars, escapeVars, tableVars, generateVars, otherVars>>

vars == <<pushVars, fingerprintVars, registryVars, restVars>>

----------------------------------------------------------------------------
(* Bounds of the model *)

\* num_variations ranges over 0..MaxNumVariations
MaxNumVariations == 5
\* a quiz holds at most MaxQuestions questions
MaxQuestions == 2

\* the attempt ceiling of the model
MaxAttempts == 4
\* a rendering compared by fingerprint carries at most MaxAnswers answers
MaxAnswers == 2
\* QuestionRegistry.create is called at most MaxCreates times
MaxCreates == 3
\* the course starts with at most MaxCourseGroups assignment groups
MaxCourseGroups == 2
\* create_assignment_group is called at most MaxGroupCalls times
MaxGroupCalls == 3
\* the text given to tex_escape has at most MaxTextLen characters
MaxTextLen == 2
\* a value_matrix has at most MaxRows rows
MaxRows == 3
\* a question with blanks has at most MaxBlanks answers
MaxBlanks == 2
\* convert_from_lines_to_text is given at most MaxLines lines
MaxLines == 3
\* push_feedback is given at most MaxAttachments attachments
MaxAttachments == 2
\* at most MaxCalls methods are called on one Question
MaxCalls == 2
\* one generate() calls instantiate() at most MaxInstantiations times
MaxInstantiations == 3

\* The ceiling on generation attempts per question. canvas_interface.py:38
\* sets 1000; the model runs the same loop under the smaller MaxAttempts.
QUESTION_VARIATIONS_TO_TRY == MaxAttempts

----------------------------------------------------------------------------
(* Values *)

\* An answer_text is a Python value: a str, an int, or an object whose
\* stringification raises TypeError.
StrVal(s) == [kind |-> "str", val |-> s]
IntVal(n) == [kind |-> "int", val |-> n]
BadVal    == [kind |-> "unstringable", val |-> 0]

\* str(a["answer_text"]) of a value that stringifies
Str(v) == IF v.kind = "int" THEN ToString(v.val) ELSE v.val

\* ''.join(parts)
RECURSIVE Join(_)
Join(parts) == IF parts = <<>> THEN "" ELSE Head(parts) \o Join(Tail(parts))

\* possible_variations is a number or float('inf') (question.py:169)
Infinity  == [finite |-> FALSE, n |-> 0]
Finite(k) == [finite |-> TRUE, n |-> k]
\* count >= possible_variations
AtLeast(count, pv) == pv.finite /\ count >= pv.n

Min(a, b) == IF a <= b THEN a ELSE b

----------------------------------------------------------------------------
(* Question fixtures: what one instantiate() + rendering can produce *)

\* One rendered variation: the body text and the answers of one random draw.
Rendering(text, answers) == [question_text |-> text, answers |-> answers]
Ans(v) == [answer_text |-> v]

RenderAB_C == Rendering("ab", <<Ans(StrVal("c"))>>)
RenderA_BC == Rendering("a", <<Ans(StrVal("bc"))>>)
RenderA_1  == Rendering("a", <<Ans(IntVal(1))>>)
RenderA_X  == Rendering("a", <<Ans(IntVal(1)), Ans(BadVal)>>)

\* The Question objects a quiz is made of, by name: points, the declared
\* possible_variations and the renderings its random draws range over.
QuestionNames == {"Single", "Pair", "Open"}
QuestionObject(name) ==
  CASE name = "Single" ->
         [name |-> name, points_value |-> 1, possible_variations |-> Infinity,
          renderings |-> {RenderAB_C}]
    [] name = "Pair" ->
         [name |-> name, points_value |-> 1, possible_variations |-> Finite(2),
          renderings |-> {RenderAB_C, RenderA_1}]
    [] name = "Open" ->
         [name |-> name, points_value |-> 2, possible_variations |-> Infinity,
          renderings |-> {RenderA_BC, RenderA_1, RenderA_X}]

\* a quiz is a sequence of questions
Quizzes == UNION { [1..n -> QuestionNames] : n \in 0..MaxQuestions }

----------------------------------------------------------------------------
(* Question.get__canvas and the fingerprint *)

NoGroup == 0

\* Question.get__canvas: generate() draws and renders, get_answers() fills the
\* payload. stamp stands for datetime.now() in the question name.
GetCanvas(self, rendered, stamp) ==
  [ question_name   |-> <<self.name, stamp>>,
    question_text   |-> rendered.question_text,
    points_possible |-> self.points_value,
    answers         |-> rendered.answers,
    quiz_group_id   |-> NoGroup ]

\* Whether ''.join([str(a["answer_text"]) ...]) raises TypeError
StringifyRaises(answers) ==
  \E i \in DOMAIN answers : answers[i].answer_text.kind = "unstringable"

\* a faulty variant: the fingerprint is taken of the whole payload, name included
FingerprintWithName(payload) ==
  payload.question_name[1] \o ToString(payload.question_name[2][2])
    \o payload.question_text

\* a faulty variant: the fingerprint is taken of the answers alone
FingerprintOfAnswers(payload) ==
  IF StringifyRaises(payload.answers)
  THEN ""
  ELSE Join([i \in DOMAIN payload.answers |-> Str(payload.answers[i].answer_text)])

\* str() of the answers before the first one that raises
RECURSIVE StringifiedPrefix(_)
StringifiedPrefix(answers) ==
  IF answers = <<>> \/ Head(answers).answer_text.kind = "unstringable" THEN ""
  ELSE Str(Head(answers).answer_text) \o StringifiedPrefix(Tail(answers))

\* a faulty variant: the answers are appended one by one, so those before the
\* one that raises stay in the fingerprint
FingerprintPartial(payload) ==
  payload.question_text \o StringifiedPrefix(payload.answers)

\* question_fingerprint as lines 131-136 leave it
Fingerprint(payload) ==
  IF StringifyRaises(payload.answers)
  THEN payload.question_text
  ELSE payload.question_text
         \o Join([i \in DOMAIN payload.answers |-> Str(payload.answers[i].answer_text)])

\* What the history keeps of one canvas_quiz.create_question(question=payload)
\* call: the rendered output, the group it was filed under, and whether the
\* call returned (ok) or raised CanvasException.
Request(payload, ok) ==
  [ question_text |-> payload.question_text,
    answers       |-> payload.answers,
    quiz_group_id |-> payload.quiz_group_id,
    fingerprint   |-> Fingerprint(payload),
    ok            |-> ok ]

NoPayload == [ question_name |-> <<"", <<0, 0>>>>, question_text |-> "",
               points_possible |-> 0, answers |-> <<>>, quiz_group_id |-> NoGroup ]

----------------------------------------------------------------------------
(* Two get__canvas calls and their fingerprints *)

Texts == {"a", "ab"}
AnswerValues == {StrVal("b"), StrVal("bb"), IntVal(1)}
AnswerLists == UNION { [1..n -> {Ans(v) : v \in AnswerValues}] : n \in 0..MaxAnswers }
Renderings == { Rendering(t, a) : t \in Texts, a \in AnswerLists }
\* <<question_i, attempt_number>> at the time of the call
Stamps == {<<1, 0>>, <<2, 1>>}
\* one call question.get__canvas(...): the question object, what its random
\* draw renders, and the time it is made
Calls == [self : {"Single", "Open"}, rendered : Renderings, stamp : Stamps]
NoCall == [self |-> "", rendered |-> Rendering("", <<>>), stamp |-> <<0, 0>>]

PayloadOf(call) == GetCanvas(QuestionObject(call.self), call.rendered, call.stamp)

FingerprintIdle ==
  /\ first_call = NoCall
  /\ second_call = NoCall
  /\ first_payload = NoPayload
  /\ second_payload = NoPayload
  /\ first_fingerprint = ""
  /\ second_fingerprint = ""
  /\ fingerprinted = 0

----------------------------------------------------------------------------
(* QuestionRegistry: names and classes *)

UpperCase == <<"A", "B", "D", "E", "H", "I", "N", "R", "S", "T", "X", "Y">>
LowerCase == <<"a", "b", "d", "e", "h", "i", "n", "r", "s", "t", "x", "y">>

\* str.lower(), character by character
LowerChar(c) ==
  IF \E k \in DOMAIN UpperCase : UpperCase[k] = c
  THEN LowerCase[CHOOSE k \in DOMAIN UpperCase : UpperCase[k] = c]
  ELSE c
Lower(name) == [k \in DOMAIN name |-> LowerChar(name[k])]

\* subclass.__name__ of the registered classes
BitsAndBytes == <<"B", "i", "t", "s", "A", "n", "d", "B", "y", "t", "e", "s">>
HexAndBinary == <<"H", "e", "x", "A", "n", "d", "B", "i", "n", "a", "r", "y">>
Classes == {BitsAndBytes, HexAndBinary}

\* question_type arguments: None (or ""), and names in several casings
None == <<>>
TypeNames ==
  { BitsAndBytes, Lower(BitsAndBytes),
    <<"B", "I", "T", "S", "A", "N", "D", "B", "Y", "T", "E", "S">>,
    HexAndBinary, <<"H", "e", "x">>, <<"h", "E", "X">>, <<"N", "o">> }

\* the modules of the premade_questions package, and what importing each one
\* registers through its @QuestionRegistry.register decorators
PremadeModules == <<"math_questions">>
Decorated(module) == <<[question_type |-> None, subclass |-> BitsAndBytes]>>

NoRegistry == [k \in {} |-> None]
NoneCreated == [question_type |-> None, raised |-> FALSE, class |-> None]

RegistryIdle ==
  /\ registry = NoRegistry
  /\ scanned = FALSE
  /\ sys_modules = {}
  /\ load_calls = 0
  /\ create_calls = 0
  /\ created = NoneCreated
  /\ registered = NoRegistry

----------------------------------------------------------------------------
(* Operations that are not running *)

GroupIdle ==
  /\ course_groups = <<>>
  /\ group_calls = <<>>

EscapeIdle ==
  /\ tex_text = <<>>
  /\ tex_escaped = <<>>
  /\ tex_done = FALSE

\* headers is None, or a list of cells
NoHeaders == [given |-> FALSE, cells |-> <<>>]
Headers(cells) == [given |-> TRUE, cells |-> cells]

TableIdle ==
  /\ headers = NoHeaders
  /\ value_matrix = <<>>
  /\ table_format = ""
  /\ table_output = <<>>
  /\ table_done = FALSE

NoClass == [class |-> "", keys |-> <<>>, layout |-> "", rejects |-> {}]
NoFields == [from_binary |-> FALSE, num_bits |-> 0, num_bytes |-> 0]
NoResult == [question_body |-> <<>>, question_explanation |-> <<>>, answers |-> <<>>]
NoCanvasPayload == [question_text |-> <<>>, answers |-> <<>>,
                    neutral_comments_html |-> <<>>]

GenerateIdle ==
  /\ self_class = NoClass
  /\ self_fields = NoFields
  /\ self_answers = <<>>
  /\ gen_format = ""
  /\ gen_pc = "idle"
  /\ gen_result = NoResult
  /\ gen_call = ""
  /\ gen_calls = 0
  /\ instantiate_calls = 0
  /\ interesting_results = <<>>
  /\ rendered_fields = NoFields
  /\ previous_answers = <<>>
  /\ canvas_payload = NoCanvasPayload

ConvertIdle ==
  /\ conv_lines = <<>>
  /\ conv_format = ""
  /\ conv_i = 0
  /\ conv_parts = <<>>
  /\ conv_curr_part = <<>>
  /\ conv_body = <<>>
  /\ conv_pc = "idle"
  /\ converted = <<>>

NoArgs == [score |-> 0, comments |-> "", attachments |-> <<>>,
           keep_previous_best |-> FALSE, clobber_feedback |-> FALSE]

FeedbackIdle ==
  /\ fb_args = NoArgs
  /\ fb_pc = "idle"
  /\ fb_score = 0
  /\ fb_i = 0
  /\ fb_name = ""
  /\ remote_score = 0
  /\ remote_comments = {}
  /\ disk = {}
  /\ written = {}

OtherIdle == ConvertIdle /\ FeedbackIdle

RestIdle == GroupIdle /\ EscapeIdle /\ TableIdle /\ GenerateIdle /\ OtherIdle

----------------------------------------------------------------------------
(* push_quiz_to_canvas *)

Init ==
  /\ FingerprintIdle
  /\ RegistryIdle
  /\ RestIdle
  /\ num_variations \in 0..MaxNumVariations
  /\ quiz \in Quizzes
  /\ pc = IF quiz = <<>> THEN "done" ELSE "group"
  /\ question_i = 1
  /\ attempt_number = 0
  /\ variation_count = 0
  /\ all_variations = {}
  /\ question_for_canvas = NoPayload
  /\ question_fingerprint = ""
  /\ groups = <<>>
  /\ requests = <<>>
  /\ generations = 0
  /\ drawn = {}

\* the question the outer loop is at
question == QuestionObject(quiz[question_i])

\* The outer for loop moves on: next question, or the push returns.
NextQuestion ==
  /\ question_i' = question_i + 1
  /\ pc' = IF question_i + 1 > Len(quiz) THEN "done" ELSE "group"

\* lines 117-126: create the question group, reset the per-question counter
CreateQuestionGroup ==
  /\ pc = "group"
  /\ UNCHANGED <<fingerprintVars, registryVars, restVars>>
  /\ groups' = Append(groups, [name |-> question.name, pick_count |-> 1,
                               question_points |-> question.points_value])
  /\ variation_count' = 0
  /\ attempt_number' = 0
  /\ pc' = "generate"
  /\ generations' = 0
  /\ drawn' = {}
  /\ UNCHANGED <<num_variations, quiz, question_i, all_variations,
                 question_for_canvas, question_fingerprint, requests>>

\* a faulty variant: the ceiling test is off by one
AttemptsLeftOffByOne == attempt_number <= QUESTION_VARIATIONS_TO_TRY

\* line 127: the inner loop runs while attempts remain
AttemptsLeft == attempt_number < QUESTION_VARIATIONS_TO_TRY

\* lines 130-136: one more generation and its fingerprint
GenerateVariation ==
  /\ pc = "generate"
  /\ UNCHANGED <<fingerprintVars, registryVars, restVars>>
  /\ AttemptsLeft
  /\ \E rendered \in question.renderings :
       LET payload == GetCanvas(question, rendered, <<question_i, attempt_number>>)
       IN /\ question_for_canvas' = payload
          /\ question_fingerprint' = Fingerprint(payload)
          /\ drawn' = drawn \cup {Fingerprint(payload)}
  /\ generations' = generations + 1
  /\ pc' = "check"
  /\ UNCHANGED <<num_variations, quiz, question_i, attempt_number,
                 variation_count, all_variations, groups, requests>>

\* a faulty variant: no duplicate is ever detected
NeverSeen == FALSE

\* a faulty variant: the seen set is kept per question
AlreadySeenThisQuestion ==
  question_fingerprint \in
    { requests[i].fingerprint :
        i \in { j \in DOMAIN requests : requests[j].quiz_group_id = question_i } }

\* line 140: the duplicate test
AlreadySeen == question_fingerprint \in all_variations

\* a faulty variant: a skipped duplicate counts as an accepted variation
SkipDuplicateCounted ==
  /\ pc = "check"
  /\ UNCHANGED <<fingerprintVars, registryVars, restVars>>
  /\ AlreadySeen
  /\ attempt_number' = attempt_number + 1
  /\ variation_count' = variation_count + 1
  /\ pc' = "generate"
  /\ UNCHANGED <<num_variations, quiz, question_i, all_variations,
                 question_for_canvas, question_fingerprint, groups, requests,
                 generations, drawn>>

\* lines 140-141: a seen fingerprint is skipped
SkipDuplicate ==
  /\ pc = "check"
  /\ UNCHANGED <<fingerprintVars, registryVars, restVars>>
  /\ AlreadySeen
  /\ attempt_number' = attempt_number + 1
  /\ pc' = "generate"
  /\ UNCHANGED <<num_variations, quiz, question_i, variation_count,
                 all_variations, question_for_canvas, question_fingerprint,
                 groups, requests, generations, drawn>>

\* a faulty variant: the group id is not set on the payload
TrackVariationNoGroup ==
  /\ pc = "check"
  /\ UNCHANGED <<fingerprintVars, registryVars, restVars>>
  /\ ~AlreadySeen
  /\ all_variations' = all_variations \cup {question_fingerprint}
  /\ pc' = "push"
  /\ UNCHANGED <<num_variations, quiz, question_i, attempt_number,
                 variation_count, question_for_canvas, question_fingerprint,
                 groups, requests, generations, drawn>>

\* lines 142-145: a new fingerprint is tracked and the payload gets its group
TrackVariation ==
  /\ pc = "check"
  /\ UNCHANGED <<fingerprintVars, registryVars, restVars>>
  /\ ~AlreadySeen
  /\ all_variations' = all_variations \cup {question_fingerprint}
  /\ question_for_canvas' =
       [question_for_canvas EXCEPT !.quiz_group_id = Len(groups)]
  /\ pc' = "push"
  /\ UNCHANGED <<num_variations, quiz, question_i, attempt_number,
                 variation_count, question_fingerprint, groups, requests,
                 generations, drawn>>

\* lines 160-163: the two breaks after an accepted variation
StopAfter(count) ==
  \/ count >= num_variations
  \/ AtLeast(count, question.possible_variations)

\* lines 150, 159-163: create_question returns
CreateQuestionOk ==
  /\ pc = "push"
  /\ UNCHANGED <<fingerprintVars, registryVars, restVars>>
  /\ requests' = Append(requests, Request(question_for_canvas, TRUE))
  /\ variation_count' = variation_count + 1
  /\ IF StopAfter(variation_count + 1)
     THEN /\ NextQuestion
          /\ UNCHANGED attempt_number
     ELSE /\ attempt_number' = attempt_number + 1
          /\ pc' = "generate"
          /\ UNCHANGED question_i
  /\ UNCHANGED <<num_variations, quiz, all_variations, question_for_canvas,
                 question_fingerprint, groups, generations, drawn>>

\* a faulty variant: the CanvasException is not caught and ends the push
CreateQuestionRaises ==
  /\ pc = "push"
  /\ UNCHANGED <<fingerprintVars, registryVars, restVars>>
  /\ requests' = Append(requests, Request(question_for_canvas, FALSE))
  /\ pc' = "raised"
  /\ UNCHANGED <<num_variations, quiz, question_i, attempt_number,
                 variation_count, all_variations, question_for_canvas,
                 question_fingerprint, groups, generations, drawn>>

\* lines 151-156: create_question raises CanvasException; sleep, continue
CreateQuestionFails ==
  /\ pc = "push"
  /\ UNCHANGED <<fingerprintVars, registryVars, restVars>>
  /\ requests' = Append(requests, Request(question_for_canvas, FALSE))
  /\ attempt_number' = attempt_number + 1
  /\ pc' = "generate"
  /\ UNCHANGED <<num_variations, quiz, question_i, variation_count,
                 all_variations, question_for_canvas, question_fingerprint,
                 groups, generations, drawn>>

\* line 127: range(QUESTION_VARIATIONS_TO_TRY) is exhausted
AttemptsExhausted ==
  /\ pc = "generate"
  /\ UNCHANGED <<fingerprintVars, registryVars, restVars>>
  /\ ~AttemptsLeft
  /\ NextQuestion
  /\ UNCHANGED <<num_variations, quiz, attempt_number, variation_count,
                 all_variations, question_for_canvas, question_fingerprint,
                 groups, requests, generations, drawn>>

Next ==
  \/ CreateQuestionGroup
  \/ GenerateVariation
  \/ SkipDuplicate
  \/ TrackVariation
  \/ CreateQuestionOk
  \/ CreateQuestionFails
  \/ AttemptsExhausted

Spec == Init /\ [][Next]_vars

\* the push is not running
PushIdle ==
  /\ num_variations = 0
  /\ quiz = <<>>
  /\ pc = "idle"
  /\ question_i = 1
  /\ attempt_number = 0
  /\ variation_count = 0
  /\ all_variations = {}
  /\ question_for_canvas = NoPayload
  /\ question_fingerprint = ""
  /\ groups = <<>>
  /\ requests = <<>>
  /\ generations = 0
  /\ drawn = {}

----------------------------------------------------------------------------
(* Fingerprinting the payloads of two get__canvas calls *)

FingerprintInit ==
  /\ PushIdle
  /\ RegistryIdle
  /\ RestIdle
  /\ first_call \in Calls
  /\ second_call \in Calls
  /\ first_payload = NoPayload
  /\ second_payload = NoPayload
  /\ first_fingerprint = ""
  /\ second_fingerprint = ""
  /\ fingerprinted = 0

\* lines 130-136 for the first call
FingerprintFirst ==
  /\ fingerprinted = 0
  /\ first_payload' = PayloadOf(first_call)
  /\ first_fingerprint' = Fingerprint(PayloadOf(first_call))
  /\ fingerprinted' = 1
  /\ UNCHANGED <<first_call, second_call, second_payload, second_fingerprint>>
  /\ UNCHANGED <<pushVars, registryVars, restVars>>

\* lines 130-136 for the second call
FingerprintSecond ==
  /\ fingerprinted = 1
  /\ second_payload' = PayloadOf(second_call)
  /\ second_fingerprint' = Fingerprint(PayloadOf(second_call))
  /\ fingerprinted' = 2
  /\ UNCHANGED <<first_call, second_call, first_payload, first_fingerprint>>
  /\ UNCHANGED <<pushVars, registryVars, restVars>>

FingerprintNext == FingerprintFirst \/ FingerprintSecond

FingerprintSpec == FingerprintInit /\ [][FingerprintNext]_vars

----------------------------------------------------------------------------
(* QuestionRegistry *)

\* a faulty variant: the name is stored as given
RegisterIntoExact(reg, question_type, subclass) ==
  LET name == IF question_type # None THEN question_type ELSE subclass
  IN [k \in DOMAIN reg \cup {name} |-> IF k = name THEN subclass ELSE reg[k]]

\* the decorator of register(question_type) applied to subclass (lines 93-97)
RegisterInto(reg, question_type, subclass) ==
  LET name == IF question_type # None THEN Lower(question_type) ELSE Lower(subclass)
  IN [k \in DOMAIN reg \cup {name} |-> IF k = name THEN subclass ELSE reg[k]]

\* importing a module runs its decorators, in order
RECURSIVE RunDecorators(_, _)
RunDecorators(reg, decorated) ==
  IF decorated = <<>> THEN reg
  ELSE RunDecorators(RegisterInto(reg, Head(decorated).question_type,
                                  Head(decorated).subclass),
                     Tail(decorated))

\* importlib.import_module: a module already imported is not run again
ImportModule(reg, imported, module) ==
  IF module \in imported THEN reg ELSE RunDecorators(reg, Decorated(module))

\* load_premade_questions (lines 113-122): import every module of the package
RECURSIVE LoadPremadeQuestions(_, _, _)
LoadPremadeQuestions(reg, imported, modules) ==
  IF modules = <<>> THEN reg
  ELSE LoadPremadeQuestions(ImportModule(reg, imported, Head(modules)),
                            imported \cup {Head(modules)}, Tail(modules))

ModulesOf(modules) == { modules[k] : k \in DOMAIN modules }

\* the decorators a run of load_premade_questions applies, in order
RECURSIVE Discovered(_, _)
Discovered(imported, modules) ==
  IF modules = <<>> THEN <<>>
  ELSE (IF Head(modules) \in imported THEN <<>> ELSE Decorated(Head(modules)))
         \o Discovered(imported \cup {Head(modules)}, Tail(modules))

\* two characters, two names that differ at most in case
SameLetter(a, b) ==
  a = b \/ \E k \in DOMAIN UpperCase : {a, b} = {UpperCase[k], LowerCase[k]}
SameName(m, n) ==
  Len(m) = Len(n) /\ \A k \in DOMAIN m : SameLetter(m[k], n[k])

\* history of one decorator application: the name as it was given (or the
\* class name) now stands for subclass, and replaces what was registered
\* under any casing of it
Registered(hist, question_type, subclass) ==
  LET name == IF question_type # None THEN question_type ELSE subclass
      kept == { n \in DOMAIN hist : ~SameName(n, name) }
  IN [n \in kept \cup {name} |-> IF n = name THEN subclass ELSE hist[n]]

RECURSIVE RegisteredAll(_, _)
RegisteredAll(hist, decorated) ==
  IF decorated = <<>> THEN hist
  ELSE RegisteredAll(Registered(hist, Head(decorated).question_type,
                                Head(decorated).subclass),
                     Tail(decorated))

RegistryInit ==
  /\ PushIdle
  /\ FingerprintIdle
  /\ RegistryIdle
  /\ RestIdle

\* @QuestionRegistry.register(question_type) on a class (lines 90-98)
Register(question_type, subclass) ==
  /\ registry' = RegisterInto(registry, question_type, subclass)
  /\ registered' = Registered(registered, question_type, subclass)
  /\ UNCHANGED <<scanned, sys_modules, load_calls, create_calls, created>>
  /\ UNCHANGED <<pushVars, fingerprintVars, restVars>>

\* line 104: whether create runs the discovery
MustLoad == ~scanned

\* a faulty variant: the membership test takes the name as given
UnknownExact(reg, question_type) == question_type \notin DOMAIN reg

\* line 107: question_type.lower() not in cls._registry
Unknown(reg, question_type) == Lower(question_type) \notin DOMAIN reg

\* QuestionRegistry.create(question_type) (lines 100-110)
Create(question_type) ==
  /\ create_calls < MaxCreates
  /\ create_calls' = create_calls + 1
  /\ LET loaded == IF MustLoad
                   THEN LoadPremadeQuestions(registry, sys_modules, PremadeModules)
                   ELSE registry
     IN /\ registry' = loaded
        /\ created' = IF Unknown(loaded, question_type)
                      THEN [question_type |-> question_type, raised |-> TRUE,
                            class |-> None]
                      ELSE [question_type |-> question_type, raised |-> FALSE,
                            class |-> loaded[Lower(question_type)]]
  /\ registered' = IF MustLoad
                   THEN RegisteredAll(registered,
                                      Discovered(sys_modules, PremadeModules))
                   ELSE registered
  /\ load_calls' = IF MustLoad THEN load_calls + 1 ELSE load_calls
  /\ sys_modules' = IF MustLoad THEN sys_modules \cup ModulesOf(PremadeModules)
                    ELSE sys_modules
  /\ UNCHANGED scanned
  /\ UNCHANGED <<pushVars, fingerprintVars, restVars>>

RegistryNext ==
  \/ \E question_type \in TypeNames \cup {None}, subclass \in Classes :
       Register(question_type, subclass)
  \/ \E question_type \in TypeNames : Create(question_type)

RegistrySpec == RegistryInit /\ [][RegistryNext]_vars

----------------------------------------------------------------------------
(* CanvasCourse.create_assignment_group *)

GroupNames == {"dev", "exam", "hw"}

\* an assignment group of the course: its id is its position in the listing
AssignmentGroup(id, name) == [id |-> id, name |-> name]

\* the listings self.course.get_assignment_groups() can return at the start
CourseGroups ==
  UNION { { [i \in 1..n |-> AssignmentGroup(i, names[i])] : names \in [1..n -> GroupNames] }
          : n \in 0..MaxCourseGroups }

GroupInit ==
  /\ PushIdle
  /\ FingerprintIdle
  /\ RegistryIdle
  /\ OtherIdle
  /\ EscapeIdle
  /\ TableIdle
  /\ GenerateIdle
  /\ course_groups \in CourseGroups
  /\ group_calls = <<>>

\* lines 64-67: the first listed group whose name equals the requested one
Existing(name) == { i \in DOMAIN course_groups : course_groups[i].name = name }
FirstExisting(name) ==
  course_groups[CHOOSE i \in Existing(name) : \A j \in Existing(name) : i <= j]

\* lines 68-72: self.course.create_assignment_group(name="dev", ...)
NewGroup(name) == AssignmentGroup(Len(course_groups) + 1, "dev")

\* create_assignment_group(name) (lines 63-73)
CreateAssignmentGroup(name) ==
  /\ Len(group_calls) < MaxGroupCalls
  /\ IF Existing(name) # {}
     THEN /\ UNCHANGED course_groups
          /\ group_calls' = Append(group_calls,
               [name |-> name, returned |-> FirstExisting(name), created |-> FALSE])
     ELSE /\ course_groups' = Append(course_groups, NewGroup(name))
          /\ group_calls' = Append(group_calls,
               [name |-> name, returned |-> NewGroup(name), created |-> TRUE])
  /\ UNCHANGED <<otherVars, pushVars, fingerprintVars, registryVars, escapeVars, tableVars,
                 generateVars>>

GroupNext == \E name \in GroupNames : CreateAssignmentGroup(name)

GroupSpec == GroupInit /\ [][GroupNext]_vars

----------------------------------------------------------------------------
(* TableGenerator.tex_escape *)

\* A string is a sequence of one-character strings.

\* the keys of conv, in the order of the dict (lines 38-51)
ConvKeys == <<"&", "%", "$", "#", "_", "{", "}", "~", "^", "\\", "<", ">">>
Special == { ConvKeys[k] : k \in DOMAIN ConvKeys }

\* conv[c] (lines 38-51)
Conv(c) ==
  CASE c = "&" -> <<"\\", "&">>
    [] c = "%" -> <<"\\", "%">>
    [] c = "$" -> <<"\\", "$">>
    [] c = "#" -> <<"\\", "#">>
    [] c = "_" -> <<"\\", "_">>
    [] c = "{" -> <<"\\", "{">>
    [] c = "}" -> <<"\\", "}">>
    [] c = "~" -> <<"\\", "t", "e", "x", "t", "a", "s", "c", "i", "i", "t", "i", "l", "d", "e", "{", "}">>
    [] c = "^" -> <<"\\", "^", "{", "}">>
    [] c = "\\" -> <<"\\", "t", "e", "x", "t", "b", "a", "c", "k", "s", "l", "a", "s", "h", "{", "}">>
    [] c = "<" -> <<"\\", "t", "e", "x", "t", "l", "e", "s", "s", "{", "}">>
    [] c = ">" -> <<"\\", "t", "e", "x", "t", "g", "r", "e", "a", "t", "e", "r", "{", "}">>

\* s.startswith(prefix)
StartsWith(s, prefix) ==
  Len(s) >= Len(prefix) /\ SubSeq(s, 1, Len(prefix)) = prefix

\* text.replace(c, replacement)
RECURSIVE Replace(_, _, _)
Replace(text, c, replacement) ==
  IF text = <<>> THEN <<>>
  ELSE (IF Head(text) = c THEN replacement ELSE <<Head(text)>>)
         \o Replace(Tail(text), c, replacement)

RECURSIVE ReplaceEach(_, _)
ReplaceEach(text, keys) ==
  IF keys = <<>> THEN text
  ELSE ReplaceEach(Replace(text, Head(keys), Conv(Head(keys))), Tail(keys))

\* a faulty variant: one str.replace per key of conv, in the order of the dict
TexEscapeByReplace(text) == ReplaceEach(text, ConvKeys)

\* tex_escape (lines 52-53): regex.sub over the alternation of the keys, each
\* one character long: one scan from left to right, a matched character is
\* replaced by conv[match.group()], the scan resumes after the match
RECURSIVE TexEscape(_)
TexEscape(text) ==
  IF text = <<>> THEN <<>>
  ELSE (IF Head(text) \in Special THEN Conv(Head(text)) ELSE <<Head(text)>>)
         \o TexEscape(Tail(text))

\* the characters and the texts given to tex_escape
TexAlphabet == Special \cup {"a", "t"}
TexTexts == UNION { [1..n -> TexAlphabet] : n \in 0..MaxTextLen }

EscapeInit ==
  /\ PushIdle
  /\ FingerprintIdle
  /\ RegistryIdle
  /\ OtherIdle
  /\ GroupIdle
  /\ TableIdle
  /\ GenerateIdle
  /\ tex_text \in TexTexts
  /\ tex_escaped = <<>>
  /\ tex_done = FALSE

\* one call TableGenerator.tex_escape(tex_text)
CallTexEscape ==
  /\ ~tex_done
  /\ tex_escaped' = TexEscape(tex_text)
  /\ tex_done' = TRUE
  /\ UNCHANGED tex_text
  /\ UNCHANGED <<otherVars, pushVars, fingerprintVars, registryVars, groupVars, tableVars,
                 generateVars>>

EscapeNext == CallTexEscape

EscapeSpec == EscapeInit /\ [][EscapeNext]_vars

----------------------------------------------------------------------------
(* TableGenerator.generate *)

\* sep.join(parts)
RECURSIVE JoinWith(_, _)
JoinWith(sep, parts) ==
  IF parts = <<>> THEN <<>>
  ELSE IF Len(parts) = 1 THEN parts[1]
       ELSE parts[1] \o sep \o JoinWith(sep, Tail(parts))

\* s * k
RECURSIVE Repeat(_, _)
Repeat(s, k) == IF k = 0 THEN <<>> ELSE s \o Repeat(s, k - 1)

NewLine == <<"\n">>
BeginTabular == <<"\\", "b", "e", "g", "i", "n", "{", "t", "a", "b", "u", "l", "a", "r", "}", "{">>
TopRule == <<"\\", "t", "o", "p", "r", "u", "l", "e">>
MidRule == <<"\\", "m", "i", "d", "r", "u", "l", "e">>
BottomRule == <<"\\", "b", "o", "t", "t", "o", "m", "r", "u", "l", "e">>
EndTabular == <<"\\", "e", "n", "d", "{", "t", "a", "b", "u", "l", "a", "r", "}">>

\* line 67: r"\begin{tabular}{" + '|l' * len(self.value_matrix[0]) + '|}'
TabularOpening(matrix) ==
  BeginTabular \o Repeat(<<"|", "l">>, Len(matrix[1])) \o <<"|", "}">>

\* lines 72, 76: ' & '.join([self.tex_escape(element) ...]) + r" \\"
RowLine(line) ==
  JoinWith(<<" ", "&", " ">>, [k \in DOMAIN line |-> TexEscape(line[k])])
    \o <<" ", "\\", "\\">>

\* a faulty variant: the rule under the header line is left out
HeaderLinesNoRule(hdrs) ==
  IF hdrs.given THEN <<RowLine(hdrs.cells)>> ELSE <<>>

\* lines 70-74: the header line and \midrule, if headers is not None
HeaderLines(hdrs) ==
  IF hdrs.given THEN <<RowLine(hdrs.cells), MidRule>> ELSE <<>>

\* lines 64-82: table_lines
TableLines(hdrs, matrix) ==
  <<TabularOpening(matrix), TopRule>>
    \o HeaderLines(hdrs)
    \o [i \in DOMAIN matrix |-> RowLine(matrix[i])]
    \o <<BottomRule, EndTabular>>

\* lines 57-62: what pytablewriter.HtmlTableWriter dumps: a table element
\* with one row of th cells if headers is given and one row of td cells per
\* row of value_matrix
HtmlCells(tag, line) ==
  JoinWith(<<>>, [k \in DOMAIN line |->
                   <<"<">> \o tag \o <<">">> \o line[k] \o <<"<", "/">> \o tag \o <<">">>])
HtmlRow(tag, line) == <<"<", "t", "r", ">">> \o HtmlCells(tag, line) \o <<"<", "/", "t", "r", ">">>
HtmlTable(hdrs, matrix) ==
  JoinWith(NewLine,
           <<<<"<", "t", "a", "b", "l", "e", ">">>>>
             \o (IF hdrs.given THEN <<HtmlRow(<<"t", "h">>, hdrs.cells)>> ELSE <<>>)
             \o [i \in DOMAIN matrix |-> HtmlRow(<<"t", "d">>, matrix[i])]
             \o <<<<"<", "/", "t", "a", "b", "l", "e", ">">>>>)

\* TableGenerator.generate(output_format) (lines 55-83)
GenerateTable(hdrs, matrix, output_format) ==
  IF output_format = "CANVAS"
  THEN HtmlTable(hdrs, matrix)
  ELSE JoinWith(NewLine, TableLines(hdrs, matrix))

\* the cells, the column counts and the tables generate is called on
Cells == { <<"a">>, <<"&">>, <<"a", "\n", "b">> }
ColumnCounts == {1, 2}
Rows(c) == [1..c -> Cells]
Matrices(c) == UNION { [1..n -> Rows(c)] : n \in 1..MaxRows }
OutputFormats == {"LATEX", "CANVAS"}

TableInit ==
  /\ PushIdle
  /\ FingerprintIdle
  /\ RegistryIdle
  /\ OtherIdle
  /\ GroupIdle
  /\ EscapeIdle
  /\ GenerateIdle
  /\ \E c \in ColumnCounts :
        /\ value_matrix \in Matrices(c)
        /\ headers \in {NoHeaders} \cup { Headers(cells) : cells \in Rows(c) }
  /\ table_format \in OutputFormats
  /\ table_output = <<>>
  /\ table_done = FALSE

\* one call generate(table_format) on TableGenerator(headers, value_matrix)
CallGenerateTable ==
  /\ ~table_done
  /\ table_output' = GenerateTable(headers, value_matrix, table_format)
  /\ table_done' = TRUE
  /\ UNCHANGED <<headers, value_matrix, table_format>>
  /\ UNCHANGED <<otherVars, pushVars, fingerprintVars, registryVars, groupVars, escapeVars,
                 generateVars>>

TableNext == CallGenerateTable

TableSpec == TableInit /\ [][TableNext]_vars

----------------------------------------------------------------------------
(* Question.convert_from_lines_to_text *)

WhiteSpace == {" ", "\n", "\t"}
AnswerOpening == <<"[", "a", "n", "s", "w", "e", "r">>
AnswerBlank == <<"\\", "a", "n", "s", "w", "e", "r", "b", "l", "a", "n", "k", "{", "3", "}">>

\* the concatenation of a sequence of strings
RECURSIVE Flatten(_)
Flatten(pieces) ==
  IF pieces = <<>> THEN <<>>
  ELSE IF Len(pieces) = 1 THEN pieces[1]
       ELSE LET half == Len(pieces) \div 2
            IN Flatten(SubSeq(pieces, 1, half))
                 \o Flatten(SubSeq(pieces, half + 1, Len(pieces)))

\* Where the match of \[answer\S+] that starts at position i of text ends, 0
\* if there is none: after "[answer", one or more characters that are not
\* white space, as many as possible, and then "]".
AnswerMatchEnd(text, i) ==
  LET after == i + Len(AnswerOpening)
      ends == { j \in (after + 1)..Len(text) :
                  /\ text[j] = "]"
                  /\ \A k \in after..(j - 1) : text[k] \notin WhiteSpace }
  IN IF /\ after - 1 <= Len(text)
        /\ SubSeq(text, i, after - 1) = AnswerOpening
        /\ ends # {}
     THEN CHOOSE j \in ends : \A k \in ends : k <= j
     ELSE 0

\* re.sub(r'\[answer\S+]', r"\\answerblank{3}", text) (lines 266, 278): the
\* leftmost match is replaced and the scan resumes after it
RECURSIVE SubAnswerBlank(_)
SubAnswerBlank(text) ==
  LET starts == { i \in DOMAIN text : AnswerMatchEnd(text, i) # 0 }
  IN IF starts = {} THEN text
     ELSE LET i == CHOOSE s \in starts : \A t \in starts : s <= t
          IN SubSeq(text, 1, i - 1) \o AnswerBlank
               \o SubAnswerBlank(SubSeq(text, AnswerMatchEnd(text, i) + 1, Len(text)))

\* text.split('\n')
RECURSIVE SplitLines(_)
SplitLines(s) ==
  IF \A k \in DOMAIN s : s[k] # "\n" THEN <<s>>
  ELSE LET k == CHOOSE i \in DOMAIN s :
                  s[i] = "\n" /\ \A j \in 1..(i - 1) : s[j] # "\n"
       IN <<SubSeq(s, 1, k - 1)>> \o SplitLines(SubSeq(s, k + 1, Len(s)))

\* The paragraphs of a markdown text: its non-empty lines, grouped at the
\* empty ones.
RECURSIVE Paragraphs(_, _)
Paragraphs(lines, curr) ==
  IF lines = <<>>
  THEN (IF curr = <<>> THEN <<>> ELSE <<curr>>)
  ELSE IF Head(lines) = <<>>
       THEN (IF curr = <<>> THEN <<>> ELSE <<curr>>) \o Paragraphs(Tail(lines), <<>>)
       ELSE Paragraphs(Tail(lines),
                       IF curr = <<>> THEN Head(lines) ELSE curr \o NewLine \o Head(lines))

\* How the LaTeX writer of the markup converter writes a paragraph: a raw
\* \answerblank{3} command passes, brackets are wrapped in braces, the
\* characters special to LaTeX are escaped.
LatexParagraph(text) ==
  LET raw == { i \in DOMAIN text :
                 /\ i + Len(AnswerBlank) - 1 <= Len(text)
                 /\ SubSeq(text, i, i + Len(AnswerBlank) - 1) = AnswerBlank }
      InRaw(k) == \E i \in raw : i <= k /\ k < i + Len(AnswerBlank)
  IN Flatten([k \in DOMAIN text |->
                IF InRaw(k) THEN <<text[k]>>
                ELSE CASE text[k] = "[" -> <<"{", "[", "}">>
                       [] text[k] = "]" -> <<"{", "]", "}">>
                       [] text[k] \in Special -> Conv(text[k])
                       [] OTHER -> <<text[k]>>])

\* How the HTML writer writes a paragraph: between <p> and </p>, unless it
\* is a block of HTML already, which passes as it is. The markup of lists
\* and of formulas is left as it is in the text.
HtmlParagraph(text) ==
  IF StartsWith(text, <<"<">>) THEN text
  ELSE <<"<", "p", ">">> \o text \o <<"<", "/", "p", ">">>

\* pypandoc.convert_text(text, to, format='md', ...) (lines 256-260, 270-274):
\* the paragraphs of text written for the target format, each output ending
\* with a line break
PandocConvert(text, to) ==
  LET paragraphs == Paragraphs(SplitLines(text), <<>>)
  IN IF paragraphs = <<>> THEN <<>>
     ELSE IF to = "html"
          THEN JoinWith(NewLine, [k \in DOMAIN paragraphs |-> HtmlParagraph(paragraphs[k])])
                 \o NewLine
          ELSE JoinWith(NewLine \o NewLine,
                        [k \in DOMAIN paragraphs |-> LatexParagraph(paragraphs[k])])
                 \o NewLine

\* ('html' if output_format == OutputFormat.CANVAS else 'latex')
PandocTarget(output_format) == IF output_format = "CANVAS" THEN "html" ELSE "latex"

\* An element of lines is a markup line or a TableGenerator.
TextLine(text) == [table |-> FALSE, text |-> text, headers |-> NoHeaders, value_matrix |-> <<>>]
TableBlock(hdrs, matrix) == [table |-> TRUE, text |-> <<>>, headers |-> hdrs, value_matrix |-> matrix]

\* a faulty variant: the placeholders are replaced whatever the format
MarkupLineReplaced(line, output_format) == SubAnswerBlank(line)

\* lines 265-266: the markup line as it is added to curr_part
MarkupLine(line, output_format) ==
  IF output_format = "LATEX" THEN SubAnswerBlank(line) ELSE line

\* the for loop of lines 252-267, from the state (parts, curr_part)
RECURSIVE ConvertLines(_, _, _, _)
ConvertLines(lines, parts, curr_part, output_format) ==
  IF lines = <<>> THEN [parts |-> parts, curr_part |-> curr_part]
  ELSE IF Head(lines).table
       THEN ConvertLines(Tail(lines),
              parts \o << PandocConvert(curr_part, PandocTarget(output_format)),
                          NewLine \o GenerateTable(Head(lines).headers,
                                                   Head(lines).value_matrix,
                                                   output_format) \o NewLine >>,
              <<>>, output_format)
       ELSE ConvertLines(Tail(lines), parts,
              curr_part \o MarkupLine(Head(lines).text, output_format) \o NewLine,
              output_format)

\* a faulty variant: the body is replaced whatever the format
BodyTextReplaced(body, output_format) == SubAnswerBlank(body)

\* lines 277-278: the joined body as it is returned
BodyText(body, output_format) ==
  IF output_format = "LATEX" THEN SubAnswerBlank(body) ELSE body

\* convert_from_lines_to_text(lines, output_format) (lines 247-279)
ConvertFromLinesToText(lines, output_format) ==
  LET looped == ConvertLines(lines, <<>>, <<>>, output_format)
      parts == Append(looped.parts,
                      PandocConvert(looped.curr_part, PandocTarget(output_format)))
  IN BodyText(JoinWith(NewLine, parts), output_format)

\* the lines convert_from_lines_to_text is given: markup lines without and
\* with placeholders, tables without and with one
LineItems ==
  { TextLine(<<"a">>),
    TextLine(<<"[", "a", "n", "s", "w", "e", "r", "1", "]">>),
    TextLine(<<"[", "a", "n", "s", "w", "e", "r", "]">>),
    TextLine(<<"[", "a", "n", "s", "w", "e", "r", "1", "]", "[", "a", "n", "s", "w", "e", "r", "2", "]">>),
    TextLine(<<"[", "a", "n", "s", "w", "e", "r", "1", "]", " ", "[", "a", "n", "s", "w", "e", "r", "2", "]">>),
    TableBlock(NoHeaders, << <<<<"a">>>> >>),
    TableBlock(NoHeaders, << <<<<"[", "a", "n", "s", "w", "e", "r", "1", "]">>>> >>) }
LineLists == UNION { [1..n -> LineItems] : n \in 0..MaxLines }

\* lines 250-251: parts = [], curr_part = ""
ConvertInit ==
  /\ PushIdle
  /\ FingerprintIdle
  /\ RegistryIdle
  /\ GroupIdle
  /\ EscapeIdle
  /\ TableIdle
  /\ GenerateIdle
  /\ FeedbackIdle
  /\ conv_lines \in LineLists
  /\ conv_format \in OutputFormats
  /\ conv_i = 1
  /\ conv_parts = <<>>
  /\ conv_curr_part = <<>>
  /\ conv_body = <<>>
  /\ conv_pc = "loop"
  /\ converted = <<>>

\* a faulty variant: the buffer is kept after a flush
FlushedKept(buffer) == buffer

\* line 262: curr_part = ""
Flushed(buffer) == <<>>

\* lines 264-267: a markup line is added to the buffer
AppendLine ==
  /\ conv_pc = "loop"
  /\ conv_i <= Len(conv_lines)
  /\ ~conv_lines[conv_i].table
  /\ conv_curr_part' =
       conv_curr_part \o MarkupLine(conv_lines[conv_i].text, conv_format) \o NewLine
  /\ conv_i' = conv_i + 1
  /\ UNCHANGED <<conv_lines, conv_format, conv_parts, conv_body, conv_pc, converted>>
  /\ UNCHANGED <<pushVars, fingerprintVars, registryVars, groupVars, escapeVars,
                 tableVars, generateVars, feedbackVars>>

\* lines 253-263: at a table the buffer is converted and emptied, and the
\* table's rendering follows it
FlushForTable ==
  /\ conv_pc = "loop"
  /\ conv_i <= Len(conv_lines)
  /\ conv_lines[conv_i].table
  /\ converted' = Append(converted, conv_curr_part)
  /\ conv_parts' =
       conv_parts \o << PandocConvert(conv_curr_part, PandocTarget(conv_format)),
                        NewLine \o GenerateTable(conv_lines[conv_i].headers,
                                                 conv_lines[conv_i].value_matrix,
                                                 conv_format) \o NewLine >>
  /\ conv_curr_part' = Flushed(conv_curr_part)
  /\ conv_i' = conv_i + 1
  /\ UNCHANGED <<conv_lines, conv_format, conv_body, conv_pc>>
  /\ UNCHANGED <<pushVars, fingerprintVars, registryVars, groupVars, escapeVars,
                 tableVars, generateVars, feedbackVars>>

\* lines 269-279: the rest of the buffer is converted, the parts are joined
\* and the text is returned
FlushAtEnd ==
  /\ conv_pc = "loop"
  /\ conv_i > Len(conv_lines)
  /\ converted' = Append(converted, conv_curr_part)
  /\ conv_parts' =
       Append(conv_parts, PandocConvert(conv_curr_part, PandocTarget(conv_format)))
  /\ conv_body' = BodyText(JoinWith(NewLine, conv_parts'), conv_format)
  /\ conv_pc' = "done"
  /\ UNCHANGED <<conv_lines, conv_format, conv_i, conv_curr_part>>
  /\ UNCHANGED <<pushVars, fingerprintVars, registryVars, groupVars, escapeVars,
                 tableVars, generateVars, feedbackVars>>

ConvertNext == AppendLine \/ FlushForTable \/ FlushAtEnd

ConvertSpec == ConvertInit /\ [][ConvertNext]_vars

----------------------------------------------------------------------------
(* Question.generate *)

\* Answer(key, value, Answer.AnswerKind.BLANK)
Answer(key, value) == [key |-> key, value |-> value, kind |-> "BLANK"]

\* Answer.get_for_canvas: the blank's identifier and the accepted text
GetForCanvas(a) == [blank_id |-> a.key, answer_text |-> a.value]

\* str(n) of a natural number
DigitChars == <<"0", "1", "2", "3", "4", "5", "6", "7", "8", "9">>
RECURSIVE Digits(_)
Digits(n) ==
  IF n < 10 THEN <<DigitChars[n + 1]>>
  ELSE Digits(n \div 10) \o <<DigitChars[(n % 10) + 1]>>

\* The Question subclasses the methods are called on: the premade
\* BitsAndBytes; a class that overrides get_body_lines alone, with a body of
\* one fixed line; and classes with one blank per key, laid out one per line,
\* on one line, or in a table, whose is_interesting() rejects the draws whose
\* value is in rejects.
BitsAndBytesClass == [class |-> "BitsAndBytes", keys |-> <<>>, layout |-> "", rejects |-> {}]
StaticClass == [class |-> "Static", keys |-> <<>>, layout |-> "", rejects |-> {}]
BlankKeys == { <<"s", "i", "z", "e">>,
               <<"a", "n", "s", "w", "e", "r", "1">>,
               <<"a", "n", "s", "w", "e", "r">> }
BlankLayouts == {"lines", "inline", "table"}
KeyLists ==
  { ks \in UNION { [1..n -> BlankKeys] : n \in 1..MaxBlanks } :
      \A i, j \in DOMAIN ks : i # j => ks[i] # ks[j] }
Rejections == { {}, {1} }
BlanksClasses ==
  { [class |-> "Blanks", keys |-> ks, layout |-> l, rejects |-> r] :
      ks \in KeyLists, l \in BlankLayouts, r \in Rejections }
QuestionClasses == {BitsAndBytesClass, StaticClass} \cup BlanksClasses

\* the values random.randint(self.MIN_BITS, self.MAX_BITS) is taken from
BitCounts == {3, 4}
BlankValues == {1, 2}

\* the fields one instantiate() can set (math_questions.py:31-34)
Draws(cls) ==
  CASE cls.class = "BitsAndBytes" ->
         { [from_binary |-> b, num_bits |-> n, num_bytes |-> 2^n] :
             b \in BOOLEAN, n \in BitCounts }
    [] cls.class = "Static" -> { NoFields }
    [] OTHER -> { [value |-> v] : v \in BlankValues }

\* self.answers as instantiate() sets it (math_questions.py:36-39)
AnswersOf(cls, fields) ==
  CASE cls.class = "BitsAndBytes" ->
         IF fields.from_binary
         THEN <<Answer(<<"n", "u", "m", "_", "b", "y", "t", "e", "s">>, fields.num_bytes)>>
         ELSE <<Answer(<<"n", "u", "m", "_", "b", "i", "t", "s">>, fields.num_bits)>>
    [] cls.class = "Static" -> <<>>
    [] OTHER -> [i \in DOMAIN cls.keys |-> Answer(cls.keys[i], fields.value)]

\* a faulty variant: instantiate() appends to the answers it finds
InstantiatedAppending(cls, answers, fields) == answers \o AnswersOf(cls, fields)

\* self.answers after instantiate(), given what it held before: the list is
\* assigned anew (question.py:304, math_questions.py:36-39)
Instantiated(cls, answers, fields) == AnswersOf(cls, fields)

\* "[" + key + "]"
Placeholder(key) == <<"[">> \o key \o <<"]">>

\* get_body_lines of BitsAndBytes (math_questions.py:41-55)
BitsAndBytesBodyLines(fields, answers) ==
  << TextLine(<<"G", "i", "v", "e", "n", " ", "t", "h", "a", "t", " ", "w", "e", " ", "h", "a", "v", "e", " ">>
                \o Digits(IF fields.from_binary THEN fields.num_bits ELSE fields.num_bytes)
                \o <<" ">>
                \o (IF fields.from_binary THEN <<"b", "i", "t", "s">> ELSE <<"b", "y", "t", "e", "s">>)
                \o <<",", " ", "h", "o", "w", " ", "m", "a", "n", "y", " ">>
                \o (IF ~fields.from_binary THEN <<"b", "i", "t", "s">> ELSE <<"b", "y", "t", "e", "s">>)
                \o <<" ">>
                \o (IF ~fields.from_binary
                    THEN <<"d", "o", " ", "w", "e", " ", "n", "e", "e", "d", " ", "t", "o", " ", "a", "d", "d", "r", "e", "s", "s", " ", "o", "u", "r", " ", "m", "e", "m", "o", "r", "y">>
                    ELSE <<"o", "f", " ", "m", "e", "m", "o", "r", "y", " ", "c", "a", "n", " ", "b", "e", " ", "a", "d", "d", "r", "e", "s", "s", "e", "d">>)
                \o <<"?">>),
     TextLine(<<>>),
     TextLine((IF fields.from_binary
               THEN <<"A", "d", "d", "r", "e", "s", "s", " ", "s", "p", "a", "c", "e", " ", "s", "i", "z", "e">>
               ELSE <<"N", "u", "m", "b", "e", "r", " ", "o", "f", " ", "b", "i", "t", "s", " ", "i", "n", " ", "a", "d", "d", "r", "e", "s", "s">>)
                \o <<":", " ">> \o Placeholder(answers[1].key) \o <<" ">>
                \o (IF ~fields.from_binary THEN <<"b", "i", "t", "s">> ELSE <<"b", "y", "t", "e", "s">>)) >>

\* get_body_lines of a class with blanks: every answer's placeholder
BlanksBodyLines(cls, answers) ==
  CASE cls.layout = "lines" ->
         [i \in DOMAIN answers |->
            TextLine(<<"V", "a", "l", "u", "e", ":", " ", "[">> \o answers[i].key \o <<"]">>)]
    [] cls.layout = "inline" ->
         << TextLine(JoinWith(<<" ", "a", "n", "d", " ">>,
                              [i \in DOMAIN answers |-> Placeholder(answers[i].key)])) >>
    [] cls.layout = "table" ->
         << TextLine(<<"F", "i", "l", "l", " ", "i", "n", ":">>),
            TableBlock(NoHeaders,
                       [i \in DOMAIN answers |->
                          <<answers[i].key, Placeholder(answers[i].key)>>]) >>

\* get_body_lines of the class with a fixed body
StaticBodyLines == << TextLine(<<"E", "x", "p", "l", "a", "i", "n", ".">>) >>

\* self.get_body_lines() (line 283)
GetBodyLines(cls, fields, answers) ==
  CASE cls.class = "BitsAndBytes" -> BitsAndBytesBodyLines(fields, answers)
    [] cls.class = "Static" -> StaticBodyLines
    [] OTHER -> BlanksBodyLines(cls, answers)

\* get_explanation_lines of BitsAndBytes (math_questions.py:57-77)
BitsAndBytesExplanationLines(fields) ==
  << TextLine(<<"R", "e", "m", "e", "m", "b", "e", "r", " ", "t", "h", "a", "t", " ", "f", "o", "r", " ", "t", "h", "e", "s", "e", " ", "p", "r", "o", "b", "l", "e", "m", "s", " ", "w", "e", " ", "u", "s", "e", " ", "o", "n", "e", " ", "o", "f", " ", "t", "h", "e", "s", "e", " ", "t", "w", "o", " ", "e", "q", "u", "a", "t", "i", "o", "n", "s", " ", "(", "w", "h", "i", "c", "h", " ", "a", "r", "e", " ", "e", "q", "u", "i", "v", "a", "l", "e", "n", "t", ")">>),
     TextLine(<<>>),
     TextLine(<<"-", " ", "$", "l", "o", "g", "_", "{", "2", "}", "(", "\\", "t", "e", "x", "t", "{", "#", "b", "y", "t", "e", "s", "}", ")", " ", "=", " ", "\\", "t", "e", "x", "t", "{", "#", "b", "i", "t", "s", "}", "$">>),
     TextLine(<<"-", " ", "$", "2", "^", "{", "(", "\\", "t", "e", "x", "t", "{", "#", "b", "i", "t", "s", "}", ")", "}", " ", "=", " ", "\\", "t", "e", "x", "t", "{", "#", "b", "y", "t", "e", "s", "}", "$">>),
     TextLine(<<>>),
     TextLine(<<"T", "h", "e", "r", "e", "f", "o", "r", "e", ",", " ", "w", "e", " ", "c", "a", "l", "c", "u", "l", "a", "t", "e", ":">>),
     TextLine(IF fields.from_binary
              THEN <<"\\", "(", " ", "2", " ", "^", " ", "{">> \o Digits(fields.num_bits) \o <<"b", "i", "t", "s", "}", " ", "=", " ", "\\", "t", "e", "x", "t", "b", "f", "{">>
                     \o Digits(fields.num_bytes) \o <<"}", "b", "y", "t", "e", "s", " ", "\\", ")">>
              ELSE <<"$", "l", "o", "g", "_", "2", "(">> \o Digits(fields.num_bytes) \o <<" ", "\\", "t", "e", "x", "t", "{", "b", "y", "t", "e", "s", "}", ")", " ", "=", " ", "\\", "t", "e", "x", "t", "b", "f", "{">>
                     \o Digits(fields.num_bits) \o <<"}", "\\", "t", "e", "x", "t", "{", "b", "i", "t", "s", "}", "$">>) >>

\* self.get_explanation_lines() (line 292): the default returns [] (lines
\* 286-288)
GetExplanationLines(cls, fields) ==
  IF cls.class = "BitsAndBytes" THEN BitsAndBytesExplanationLines(fields) ELSE <<>>

\* self.points_value and self.spacing as __init__ leaves them (lines 158-164)
PointsValue == 1
Spacing == 3

\* get_header (lines 189-199)
GetHeader(output_format) ==
  IF output_format = "LATEX"
  THEN JoinWith(NewLine,
         << <<"\\", "n", "o", "i", "n", "d", "e", "n", "t", "\\", "b", "e", "g", "i", "n", "{", "m", "i", "n", "i", "p", "a", "g", "e", "}", "{", "\\", "t", "e", "x", "t", "w", "i", "d", "t", "h", "}">>,
            <<"\\", "q", "u", "e", "s", "t", "i", "o", "n", "{">> \o Digits(PointsValue) \o <<"}">>,
            <<"\\", "n", "o", "i", "n", "d", "e", "n", "t", "\\", "b", "e", "g", "i", "n", "{", "m", "i", "n", "i", "p", "a", "g", "e", "}", "{", "0", ".", "9", "\\", "t", "e", "x", "t", "w", "i", "d", "t", "h", "}">> >>)
  ELSE <<>>

\* get_footer (lines 201-212)
GetFooter(output_format) ==
  IF output_format = "LATEX"
  THEN JoinWith(NewLine,
         << <<"\\", "v", "s", "p", "a", "c", "e", "{">> \o Digits(Spacing) \o <<"c", "m", "}">>,
            <<"\\", "e", "n", "d", "{", "m", "i", "n", "i", "p", "a", "g", "e", "}">>,
            <<"\\", "e", "n", "d", "{", "m", "i", "n", "i", "p", "a", "g", "e", "}">> >>)
  ELSE <<>>

\* get_body (lines 281-284)
GetBody(cls, fields, answers, output_format) ==
  ConvertFromLinesToText(GetBodyLines(cls, fields, answers), output_format)

\* get_explanation (lines 290-293)
GetExplanation(cls, fields, output_format) ==
  ConvertFromLinesToText(GetExplanationLines(cls, fields), output_format)

\* get_answers (lines 295-297)
GetAnswers(answers) == [i \in DOMAIN answers |-> GetForCanvas(answers[i])]

\* is_interesting (lines 327-328): True unless the class overrides it
IsInteresting(cls, fields) ==
  IF cls.rejects = {} THEN TRUE ELSE fields.value \notin cls.rejects

\* the answers get__canvas puts in the payload (line 179): get_answers() of
\* the object as generate() left it
PayloadAnswers(cls, fields, answers) == GetAnswers(answers)

\* the Question as __init__ leaves it (lines 158-169), no method called yet
GenerateInit ==
  /\ PushIdle
  /\ FingerprintIdle
  /\ RegistryIdle
  /\ OtherIdle
  /\ GroupIdle
  /\ EscapeIdle
  /\ TableIdle
  /\ self_class \in QuestionClasses
  /\ self_fields = NoFields
  /\ self_answers = <<>>
  /\ gen_format = ""
  /\ gen_pc = "idle"
  /\ gen_result = NoResult
  /\ gen_call = ""
  /\ gen_calls = 0
  /\ instantiate_calls = 0
  /\ interesting_results = <<>>
  /\ rendered_fields = NoFields
  /\ previous_answers = <<>>
  /\ canvas_payload = NoCanvasPayload

\* the positions at which no method of the Question is running
CallPoints == {"idle", "done", "returned", "instantiated"}

\* a method is entered: the histories of the previous call are dropped
Enter(method, output_format) ==
  /\ gen_pc \in CallPoints
  /\ gen_calls < MaxCalls
  /\ gen_calls' = gen_calls + 1
  /\ gen_call' = method
  /\ gen_format' = output_format
  /\ gen_result' = NoResult
  /\ interesting_results' = <<>>
  /\ rendered_fields' = NoFields
  /\ canvas_payload' = NoCanvasPayload

\* question.generate(output_format) is called (line 306)
CallGenerate ==
  /\ \E output_format \in OutputFormats : Enter("generate", output_format)
  /\ gen_pc' = "instantiate"
  /\ instantiate_calls' = 0
  /\ UNCHANGED <<self_class, self_fields, self_answers, previous_answers>>
  /\ UNCHANGED <<otherVars, pushVars, fingerprintVars, registryVars, groupVars, escapeVars,
                 tableVars>>

\* question.get__canvas(course, quiz) is called (lines 175-177): it calls
\* generate(OutputFormat.CANVAS)
CallGetCanvas ==
  /\ Enter("get__canvas", "CANVAS")
  /\ gen_pc' = "instantiate"
  /\ instantiate_calls' = 0
  /\ UNCHANGED <<self_class, self_fields, self_answers, previous_answers>>
  /\ UNCHANGED <<otherVars, pushVars, fingerprintVars, registryVars, groupVars, escapeVars,
                 tableVars>>

\* question.instantiate() is called by itself (lines 299-304,
\* math_questions.py:31-39)
CallInstantiate ==
  /\ Enter("instantiate", "")
  /\ \E fields \in Draws(self_class) :
       /\ self_fields' = fields
       /\ self_answers' = Instantiated(self_class, self_answers, fields)
       /\ previous_answers' = self_answers
  /\ instantiate_calls' = 1
  /\ gen_pc' = "instantiated"
  /\ UNCHANGED self_class
  /\ UNCHANGED <<otherVars, pushVars, fingerprintVars, registryVars, groupVars, escapeVars,
                 tableVars>>

\* lines 308, 311: self.instantiate()
Instantiate ==
  /\ gen_pc = "instantiate"
  /\ instantiate_calls < MaxInstantiations
  /\ \E fields \in Draws(self_class) :
       /\ self_fields' = fields
       /\ self_answers' = Instantiated(self_class, self_answers, fields)
       /\ previous_answers' = self_answers
  /\ instantiate_calls' = instantiate_calls + 1
  /\ gen_pc' = "interesting"
  /\ UNCHANGED <<self_class, gen_format, gen_result, gen_call, gen_calls,
                 interesting_results, rendered_fields, canvas_payload>>
  /\ UNCHANGED <<otherVars, pushVars, fingerprintVars, registryVars, groupVars, escapeVars,
                 tableVars>>

\* a faulty variant: the loop is left after the first instantiate()
CheckInterestingOnce ==
  /\ gen_pc = "interesting"
  /\ interesting_results' =
       Append(interesting_results, IsInteresting(self_class, self_fields))
  /\ gen_pc' = "render"
  /\ UNCHANGED <<self_class, self_fields, self_answers, previous_answers,
                 gen_format, gen_result,
                 gen_call, gen_calls, instantiate_calls, rendered_fields,
                 canvas_payload>>
  /\ UNCHANGED <<otherVars, pushVars, fingerprintVars, registryVars, groupVars, escapeVars,
                 tableVars>>

\* line 309: while (not self.is_interesting())
CheckInteresting ==
  /\ gen_pc = "interesting"
  /\ interesting_results' =
       Append(interesting_results, IsInteresting(self_class, self_fields))
  /\ gen_pc' = IF IsInteresting(self_class, self_fields) THEN "render" ELSE "instantiate"
  /\ UNCHANGED <<self_class, self_fields, self_answers, previous_answers,
                 gen_format, gen_result,
                 gen_call, gen_calls, instantiate_calls, rendered_fields,
                 canvas_payload>>
  /\ UNCHANGED <<otherVars, pushVars, fingerprintVars, registryVars, groupVars, escapeVars,
                 tableVars>>

\* lines 313-325: header, body, explanation, footer, answers; generate
\* returns to its caller, or into get__canvas
Render ==
  /\ gen_pc = "render"
  /\ gen_result' =
       [ question_body |->
           GetHeader(gen_format)
             \o GetBody(self_class, self_fields, self_answers, gen_format)
             \o GetFooter(gen_format),
         question_explanation |->
           IF gen_format = "CANVAS"
           THEN PandocConvert(GetExplanation(self_class, self_fields, gen_format), "html")
           ELSE <<>>,
         answers |-> GetAnswers(self_answers) ]
  /\ rendered_fields' = self_fields
  /\ gen_pc' = IF gen_call = "get__canvas" THEN "get_answers" ELSE "done"
  /\ UNCHANGED <<self_class, self_fields, self_answers, previous_answers,
                 gen_format, gen_call,
                 gen_calls, instantiate_calls, interesting_results, canvas_payload>>
  /\ UNCHANGED <<otherVars, pushVars, fingerprintVars, registryVars, groupVars, escapeVars,
                 tableVars>>

\* a faulty variant: get__canvas instantiates again before it reads the
\* answers
GetAnswersAfterInstantiate ==
  /\ gen_pc = "get_answers"
  /\ \E fields \in Draws(self_class) :
       /\ self_fields' = fields
       /\ self_answers' = Instantiated(self_class, self_answers, fields)
       /\ previous_answers' = self_answers
       /\ canvas_payload' =
            [ question_text |-> gen_result.question_body,
              answers |-> GetAnswers(AnswersOf(self_class, fields)),
              neutral_comments_html |-> gen_result.question_explanation ]
  /\ instantiate_calls' = instantiate_calls + 1
  /\ gen_pc' = "returned"
  /\ UNCHANGED <<self_class, gen_format, gen_result, gen_call, gen_calls,
                 interesting_results, rendered_fields>>
  /\ UNCHANGED <<otherVars, pushVars, fingerprintVars, registryVars, groupVars, escapeVars,
                 tableVars>>

\* lines 179-187: get__canvas calls get_answers() and returns the payload;
\* of the payload, the fields read of the Question's draw are kept
GetAnswersForCanvas ==
  /\ gen_pc = "get_answers"
  /\ canvas_payload' =
       [ question_text |-> gen_result.question_body,
         answers |-> PayloadAnswers(self_class, self_fields, self_answers),
         neutral_comments_html |-> gen_result.question_explanation ]
  /\ gen_pc' = "returned"
  /\ UNCHANGED <<self_class, self_fields, self_answers, previous_answers,
                 gen_format, gen_result,
                 gen_call, gen_calls, instantiate_calls, interesting_results,
                 rendered_fields>>
  /\ UNCHANGED <<otherVars, pushVars, fingerprintVars, registryVars, groupVars, escapeVars,
                 tableVars>>

GenerateNext ==
  \/ CallGenerate
  \/ CallGetCanvas
  \/ CallInstantiate
  \/ Instantiate
  \/ CheckInteresting
  \/ Render
  \/ GetAnswersForCanvas

GenerateSpec == GenerateInit /\ [][GenerateNext]_vars

----------------------------------------------------------------------------
(* CanvasAssignment.push_feedback *)

\* attachment_buffer.name of the attachments
AttachmentNames == {"report.pdf", "feedback.txt"}
AttachmentLists == UNION { [1..n -> AttachmentNames] : n \in 0..MaxAttachments }
Scores == {1, 2}
CommentTexts == {"", "ok"}

FeedbackArgs ==
  [ score : Scores, comments : CommentTexts, attachments : AttachmentLists,
    keep_previous_best : BOOLEAN, clobber_feedback : BOOLEAN ]

\* push_feedback is entered (lines 196-199); the submission has a score and
\* perhaps an earlier comment; none of the files is in the directory
FeedbackInit ==
  /\ PushIdle
  /\ FingerprintIdle
  /\ RegistryIdle
  /\ GroupIdle
  /\ EscapeIdle
  /\ TableIdle
  /\ GenerateIdle
  /\ ConvertIdle
  /\ fb_args \in FeedbackArgs
  /\ fb_pc = "previous"
  /\ fb_score = fb_args.score
  /\ fb_i = 0
  /\ fb_name = ""
  /\ remote_score \in Scores
  /\ remote_comments \in {<<>>, <<"old">>}
  /\ disk = {}
  /\ written = {}

\* lines 201-208: the previous score is read and kept if it is higher;
\* ConnectionError is caught
GetPreviousScore ==
  /\ fb_pc = "previous"
  /\ \E connected \in BOOLEAN :
       fb_score' = IF connected /\ fb_args.keep_previous_best /\ remote_score > fb_score
                   THEN remote_score
                   ELSE fb_score
  /\ fb_pc' = "update"
  /\ UNCHANGED <<fb_args, fb_i, fb_name, remote_score, remote_comments, disk, written>>
  /\ UNCHANGED <<pushVars, fingerprintVars, registryVars, groupVars, escapeVars,
                 tableVars, generateVars, convertVars>>

\* lines 211-225: the grade is posted and the submission read again; on
\* ConnectionError, from either call, push_feedback returns
UpdateGrade ==
  /\ fb_pc = "update"
  /\ \E outcome \in {"ok", "update raises", "get raises"} :
       /\ remote_score' = IF outcome = "update raises" THEN remote_score ELSE fb_score
       /\ fb_pc' = IF outcome = "ok" THEN "edit" ELSE "returned"
  /\ UNCHANGED <<fb_args, fb_score, fb_i, fb_name, remote_comments, disk, written>>
  /\ UNCHANGED <<pushVars, fingerprintVars, registryVars, groupVars, escapeVars,
                 tableVars, generateVars, convertVars>>

\* lines 227-232: submission.edit
EditSubmission ==
  /\ fb_pc = "edit"
  /\ remote_score' = fb_score
  /\ fb_pc' = "clobber"
  /\ UNCHANGED <<fb_args, fb_score, fb_i, fb_name, remote_comments, disk, written>>
  /\ UNCHANGED <<pushVars, fingerprintVars, registryVars, groupVars, escapeVars,
                 tableVars, generateVars, convertVars>>

\* the comments left when each of those in deleted has been deleted
RECURSIVE Remaining(_, _, _)
Remaining(comments, deleted, i) ==
  IF i > Len(comments) THEN <<>>
  ELSE (IF i \in deleted THEN <<>> ELSE <<comments[i]>>)
         \o Remaining(comments, deleted, i + 1)

\* lines 234-249: with clobber_feedback a DELETE request is made for every
\* comment; each one succeeds (status 200) or not
ClobberFeedback ==
  /\ fb_pc = "clobber"
  /\ IF fb_args.clobber_feedback
     THEN \E deleted \in SUBSET DOMAIN remote_comments :
            remote_comments' = Remaining(remote_comments, deleted, 1)
     ELSE UNCHANGED remote_comments
  /\ fb_pc' = "comments"
  /\ UNCHANGED <<fb_args, fb_score, fb_i, fb_name, remote_score, disk, written>>
  /\ UNCHANGED <<pushVars, fingerprintVars, registryVars, groupVars, escapeVars,
                 tableVars, generateVars, convertVars>>

\* lines 253-256: upload_buffer_as_file opens the file name for writing and
\* writes the buffer
WriteFile(name) ==
  /\ fb_name' = name
  /\ disk' = disk \cup {name}
  /\ written' = written \cup {name}
  /\ fb_pc' = "upload"

\* lines 260-261: the comments, if any, go to feedback.txt
WriteComments ==
  /\ fb_pc = "comments"
  /\ IF Len(fb_args.comments) > 0
     THEN WriteFile("feedback.txt") /\ UNCHANGED fb_i
     ELSE /\ fb_pc' = "attachments"
          /\ fb_i' = 1
          /\ UNCHANGED <<fb_name, disk, written>>
  /\ UNCHANGED <<fb_args, fb_score, remote_score, remote_comments>>
  /\ UNCHANGED <<pushVars, fingerprintVars, registryVars, groupVars, escapeVars,
                 tableVars, generateVars, convertVars>>

\* lines 263-264: the next attachment goes to a file of its name
WriteAttachment ==
  /\ fb_pc = "attachments"
  /\ fb_i <= Len(fb_args.attachments)
  /\ WriteFile(fb_args.attachments[fb_i])
  /\ UNCHANGED <<fb_args, fb_score, fb_i, remote_score, remote_comments>>
  /\ UNCHANGED <<pushVars, fingerprintVars, registryVars, groupVars, escapeVars,
                 tableVars, generateVars, convertVars>>

\* line 257: submission.upload_comment raises; the with block closes the
\* file and the exception leaves upload_buffer_as_file and push_feedback
UploadFails ==
  /\ fb_pc = "upload"
  /\ fb_pc' = "raised"
  /\ UNCHANGED <<fb_args, fb_score, fb_i, fb_name, remote_score, remote_comments,
                 disk, written>>
  /\ UNCHANGED <<pushVars, fingerprintVars, registryVars, groupVars, escapeVars,
                 tableVars, generateVars, convertVars>>

\* lines 257-258: submission.upload_comment returns, the file is closed and
\* os.remove(name) removes it
UploadAndRemove ==
  /\ fb_pc = "upload"
  /\ remote_comments' = Append(remote_comments, fb_name)
  /\ disk' = disk \ {fb_name}
  /\ fb_i' = fb_i + 1
  /\ fb_pc' = "attachments"
  /\ UNCHANGED <<fb_args, fb_score, fb_name, remote_score, written>>
  /\ UNCHANGED <<pushVars, fingerprintVars, registryVars, groupVars, escapeVars,
                 tableVars, generateVars, convertVars>>

\* the loop of line 263 is over: push_feedback returns
ReturnFeedback ==
  /\ fb_pc = "attachments"
  /\ fb_i > Len(fb_args.attachments)
  /\ fb_pc' = "returned"
  /\ UNCHANGED <<fb_args, fb_score, fb_i, fb_name, remote_score, remote_comments,
                 disk, written>>
  /\ UNCHANGED <<pushVars, fingerprintVars, registryVars, groupVars, escapeVars,
                 tableVars, generateVars, convertVars>>

FeedbackNext ==
  \/ GetPreviousScore
  \/ UpdateGrade
  \/ EditSubmission
  \/ ClobberFeedback
  \/ WriteComments
  \/ WriteAttachment
  \/ UploadFails
  \/ UploadAndRemove
  \/ ReturnFeedback

FeedbackSpec == FeedbackInit /\ [][FeedbackNext]_vars

----------------------------------------------------------------------------
(* Reading the history of create_question calls *)

\* the calls filed under group g (the g-th question of the quiz)
CallsOf(g) == { i \in DOMAIN requests : requests[i].quiz_group_id = g }
AcceptedCalls(g) == { i \in CallsOf(g) : requests[i].ok }
FailedCalls(g) == { i \in CallsOf(g) : ~requests[i].ok }
Accepted(g) == Cardinality(AcceptedCalls(g))
\* min(num_variations, possible_variations)
MinOfRequested(pv) == IF pv.finite THEN Min(num_variations, pv.n) ELSE num_variations
\* fingerprints recorded before the g-th question was started
SeenBefore(g) == { requests[i].fingerprint :
                     i \in { j \in DOMAIN requests : requests[j].quiz_group_id < g } }
\* the question whose loop ran last, once its loop is over
LoopOver == pc \in {"group", "done"} /\ question_i > 1
Finished == question_i - 1

----------------------------------------------------------------------------
(* C1 *)

\* C1: for every question, the number of accepted variations (successful
\* create_question calls counted in variation_count) never exceeds
\* min(num_variations, possible_variations).
C1_AcceptedWithinMin ==
  \A g \in 1..Len(groups) :
    Accepted(g) <= MinOfRequested(QuestionObject(quiz[g]).possible_variations)

----------------------------------------------------------------------------
(* C2 *)

\* a failed call whose rendering no later call got accepted
Unresolved(i) ==
  /\ ~requests[i].ok
  /\ ~\E j \in DOMAIN requests :
        j > i /\ requests[j].ok /\ requests[j].fingerprint = requests[i].fingerprint

\* C2: after create_question fails with a CanvasException the next call
\* re-submits the same variation, and the failure does not consume a
\* fingerprint slot: outside the submission itself, the fingerprint of a
\* variation that failed and was not accepted since is not in the seen set.
C2_FailureKeepsSlotFree ==
  /\ \A i \in DOMAIN requests :
        (~requests[i].ok /\ i + 1 \in DOMAIN requests) =>
          /\ requests[i + 1].question_text = requests[i].question_text
          /\ requests[i + 1].answers = requests[i].answers
  /\ pc # "push" =>
        \A i \in DOMAIN requests :
          Unresolved(i) => requests[i].fingerprint \notin all_variations

----------------------------------------------------------------------------
(* C3 *)

\* the first call made for group g raised and every later one returned
FailedOnlyFirst(g) ==
  /\ CallsOf(g) # {}
  /\ \A i \in CallsOf(g) :
        requests[i].ok <=> (\E j \in CallsOf(g) : j < i)

\* C3: with num_variations = 1, a question whose first create_question call
\* raises and whose later calls all succeed ends the push with exactly one
\* accepted variation and exactly one retry; stated for the case the claim
\* singles out, a question that renders a single distinct output.
C3_OneFailureOneAccepted ==
  (pc = "done" /\ num_variations = 1) =>
    \A g \in 1..Len(quiz) :
      (Cardinality(QuestionObject(quiz[g]).renderings) = 1 /\ FailedOnlyFirst(g)) =>
        Accepted(g) = 1 /\ Cardinality(FailedCalls(g)) = 1

----------------------------------------------------------------------------
(* C4 *)

\* The scenario: the question whose loop just ended renders exactly 2 distinct
\* outputs, declares possible_variations = 2, was pushed with
\* num_variations = 5, and none of its submissions failed.
TwoOfFive(g) ==
  /\ Cardinality(QuestionObject(quiz[g]).renderings) = 2
  /\ QuestionObject(quiz[g]).possible_variations = Finite(2)
  /\ num_variations = 5
  /\ FailedCalls(g) = {}

\* C4 as claimed: in that scenario the question ends with exactly 2 accepted
\* variations.
C4_ExactlyTwoAccepted ==
  (LoopOver /\ TwoOfFive(Finished)) => Accepted(Finished) = 2

\* C4 as amended: in that scenario the question ends with one accepted
\* variation per distinct fingerprint that was generated for it and had not
\* been recorded earlier in the push, which is at most 2.
C4_OnePerNewFingerprint ==
  (LoopOver /\ TwoOfFive(Finished)) =>
    /\ Accepted(Finished) = Cardinality(drawn \ SeenBefore(Finished))
    /\ Accepted(Finished) <= 2

\* the scenario ends with both renderings accepted
C4_Witness ==
  LoopOver /\ TwoOfFive(Finished) /\ Accepted(Finished) = 2 /\ pc = "done"

----------------------------------------------------------------------------
(* C5 *)

\* C5: the per-question loop makes at most QUESTION_VARIATIONS_TO_TRY
\* generation attempts and never gets stuck before the push returns, whatever
\* num_variations, possible_variations, duplicates and failures.
C5_AttemptsBounded ==
  /\ generations <= QUESTION_VARIATIONS_TO_TRY
  /\ pc # "done" => ENABLED Next

\* the ceiling is reached by a question that cannot render as many distinct
\* outputs as requested
C5_Witness ==
  /\ pc = "generate"
  /\ generations = QUESTION_VARIATIONS_TO_TRY
  /\ Cardinality(question.renderings) < num_variations
  /\ variation_count < num_variations
  /\ FailedCalls(question_i) # {}

----------------------------------------------------------------------------
(* C6 *)

\* C6: no two successfully submitted variations of one push have the same
\* fingerprint, whichever questions they belong to, and every accepted
\* fingerprint stays in the seen set.
C6_AcceptedFingerprintsDistinct ==
  /\ \A i, j \in DOMAIN requests :
        (i # j /\ requests[i].ok /\ requests[j].ok) =>
          requests[i].fingerprint # requests[j].fingerprint
  /\ \A i \in DOMAIN requests :
        requests[i].ok => requests[i].fingerprint \in all_variations

\* a later question generated a fingerprint accepted for an earlier one, and
\* had another variation accepted
C6_Witness ==
  /\ question_i = 2
  /\ Accepted(1) > 0
  /\ Accepted(2) > 0
  /\ \E i \in AcceptedCalls(1) : requests[i].fingerprint \in drawn

----------------------------------------------------------------------------
(* C7 *)

\* C7: the push never ends anywhere but at its return, and then every
\* question of the quiz has had its group created, in quiz order; every
\* submission is filed under a group of the quiz, in quiz order.
C7_BestEffort ==
  /\ pc \notin {"group", "generate", "check", "push"} =>
        /\ pc = "done"
        /\ question_i = Len(quiz) + 1
        /\ Len(groups) = Len(quiz)
  /\ \A g \in 1..Len(groups) : groups[g].name = QuestionObject(quiz[g]).name
  /\ \A i \in DOMAIN requests :
        /\ requests[i].quiz_group_id \in 1..Len(groups)
        /\ \A j \in DOMAIN requests :
              i < j => requests[i].quiz_group_id <= requests[j].quiz_group_id

\* a two-question push returns after a failed submission in the first
\* question and an exhausted ceiling in the second
C7_Witness ==
  /\ pc = "done"
  /\ Len(quiz) = 2
  /\ FailedCalls(1) # {}
  /\ generations = QUESTION_VARIATIONS_TO_TRY
  /\ Accepted(2) < num_variations

----------------------------------------------------------------------------
(* C8 *)

SameRendering ==
  /\ first_payload.question_text = second_payload.question_text
  /\ first_payload.answers = second_payload.answers

\* C8: two payloads with equal question_text and equal answers get equal
\* fingerprints, whatever question object, time and draw produced them.
C8_FingerprintOfRenderingOnly ==
  (fingerprinted = 2 /\ SameRendering) => first_fingerprint = second_fingerprint

\* the same rendering from another question at another time, with a
\* different question_name
C8_Witness ==
  /\ fingerprinted = 2
  /\ SameRendering
  /\ first_call.self # second_call.self
  /\ first_call.stamp # second_call.stamp
  /\ first_payload.question_name # second_payload.question_name
  /\ first_payload.answers # <<>>

----------------------------------------------------------------------------
(* C9 *)

\* C9 as claimed: renderings that differ in question_text or in their ordered
\* answers never share a fingerprint.
C9_FingerprintInjective ==
  (fingerprinted = 2 /\ ~SameRendering) => first_fingerprint # second_fingerprint

\* C9 as amended: renderings with equal ordered answers and different
\* question_text never share a fingerprint.
C9_DistinctBodiesDistinctFingerprints ==
  ( /\ fingerprinted = 2
    /\ first_payload.answers = second_payload.answers
    /\ first_payload.question_text # second_payload.question_text )
  => first_fingerprint # second_fingerprint

\* two bodies with the same non-empty answers
C9_Witness ==
  /\ fingerprinted = 2
  /\ first_payload.answers = second_payload.answers
  /\ first_payload.answers # <<>>
  /\ first_payload.question_text # second_payload.question_text

----------------------------------------------------------------------------
(* C10 *)

\* C10: across any sequence of create calls the discovery pass
\* load_premade_questions runs at most once.
C10_DiscoveryAtMostOnce == load_calls <= 1

----------------------------------------------------------------------------
(* C11 *)

\* the step is a call of QuestionRegistry.create
CreateStep == create_calls' # create_calls

\* C11: lookup is case-insensitive: whenever a class is registered under a
\* name (an explicit name or the default class name, in any casing), create
\* called with any casing of that name does not raise and yields the class of
\* the latest such registration.
C11_CaseInsensitiveLookup ==
  [][ CreateStep =>
        \A n \in DOMAIN registered' :
          SameName(n, created'.question_type) =>
            ~created'.raised /\ created'.class = registered'[n] ]_vars

\* a class registered under a mixed-case explicit name that is not its class
\* name was created through another casing of that name
C11_Witness ==
  /\ ~created.raised
  /\ \E n \in DOMAIN registered :
        /\ SameName(n, created.question_type)
        /\ n # created.question_type
        /\ n # Lower(n)
        /\ created.question_type # Lower(n)
        /\ ~SameName(n, registered[n])
        /\ created.class = registered[n]
        /\ registry[Lower(n)] = created.class

----------------------------------------------------------------------------
(* C12 *)

DiscoveredEntry(decorated, i) ==
  [name  |-> IF decorated[i].question_type # None
             THEN Lower(decorated[i].question_type)
             ELSE Lower(decorated[i].subclass),
   class |-> decorated[i].subclass]

----------------------------------------------------------------------------
(* C13 *)

\* C13: create_assignment_group(name) returns a group named name, reusing an
\* existing group of exactly that name and otherwise creating one; two calls
\* in a row with one name create at most one group and both return a group
\* with the requested name.
C13_ReuseOrCreateByName ==
  /\ \A i \in DOMAIN group_calls : group_calls[i].returned.name = group_calls[i].name
  /\ \A i \in DOMAIN group_calls :
        (i + 1 \in DOMAIN group_calls /\ group_calls[i + 1].name = group_calls[i].name) =>
          ~(group_calls[i].created /\ group_calls[i + 1].created)

----------------------------------------------------------------------------
(* C15 *)

\* Reading an escaped string back from left to right: an escape sequence
\* stands for its character, any other character for itself; a special
\* character outside an escape sequence is read as "?".
RECURSIVE Unescape(_)
Unescape(s) ==
  IF s = <<>> THEN <<>>
  ELSE IF \E c \in Special : StartsWith(s, Conv(c))
       THEN LET c == CHOOSE d \in Special : StartsWith(s, Conv(d))
            IN <<c>> \o Unescape(SubSeq(s, Len(Conv(c)) + 1, Len(s)))
       ELSE IF Head(s) \in Special
            THEN <<"?">> \o Unescape(Tail(s))
            ELSE <<Head(s)>> \o Unescape(Tail(s))

RECURSIVE EscapedLen(_)
EscapedLen(text) ==
  IF text = <<>> THEN 0
  ELSE (IF Head(text) \in Special THEN Len(Conv(Head(text))) ELSE 1)
         + EscapedLen(Tail(text))

\* C15: tex_escape substitutes in a single pass: the result reads back, one
\* escape sequence per special character and every other character as it
\* is, to exactly the input, in order; it is as long as the input's
\* characters and escape sequences together, so nothing that a replacement
\* introduced was escaped again.
C15_SinglePassEscape ==
  tex_done =>
    /\ Unescape(tex_escaped) = tex_text
    /\ Len(tex_escaped) = EscapedLen(tex_text)

\* the input already looks like an escape sequence: a backslash followed by
\* another special character
C15_Witness ==
  /\ tex_done
  /\ Len(tex_text) = 2
  /\ tex_text[1] = "\\"
  /\ tex_text[2] \in Special \ {"\\"}
  /\ Len(tex_escaped) > 4

----------------------------------------------------------------------------
(* C16 *)

\* how many characters of s are c
CountChar(s, c) == Cardinality({ k \in DOMAIN s : s[k] = c })

\* The lines of the LaTeX table are: the tabular opening with one l per
\* column, \toprule, the header line and \midrule only if headers is given,
\* one line per row in row order, \bottomrule, the tabular end.
LatexShape(lines) ==
  LET n == Len(value_matrix)
      c == Len(value_matrix[1])
      h == IF headers.given THEN 2 ELSE 0
  IN /\ Len(lines) = n + h + 4
     /\ StartsWith(lines[1], BeginTabular)
     /\ lines[1][Len(lines[1])] = "}"
     /\ CountChar(SubSeq(lines[1], Len(BeginTabular) + 1, Len(lines[1])), "l") = c
     /\ lines[2] = TopRule
     /\ headers.given => lines[3] = RowLine(headers.cells) /\ lines[4] = MidRule
     /\ ~headers.given => \A i \in DOMAIN lines : lines[i] # MidRule
     /\ \A k \in 1..n : lines[2 + h + k] = RowLine(value_matrix[k])
     /\ lines[n + h + 3] = BottomRule
     /\ lines[n + h + 4] = EndTabular

\* no cell and no header holds a line break
NoLineBreaks ==
  /\ \A i \in DOMAIN value_matrix : \A k \in DOMAIN value_matrix[i] :
        CountChar(value_matrix[i][k], "\n") = 0
  /\ \A k \in DOMAIN headers.cells : CountChar(headers.cells[k], "\n") = 0

\* C16 as claimed: for every value_matrix of n >= 1 rows with c columns the
\* string generate(LATEX) returns has exactly those lines.
C16_LatexTableLines ==
  (table_done /\ table_format = "LATEX") => LatexShape(SplitLines(table_output))

\* C16 as amended: the same, for tables whose cells and headers hold no line
\* break.
C16_LatexTableLinesOfOneLineCells ==
  (table_done /\ table_format = "LATEX" /\ NoLineBreaks) =>
    LatexShape(SplitLines(table_output))

\* 2 headers and 3 rows, an escaped cell among them: 9 lines
C16_Witness ==
  /\ table_done
  /\ table_format = "LATEX"
  /\ NoLineBreaks
  /\ headers.given
  /\ Len(headers.cells) = 2
  /\ Len(value_matrix) = 3
  /\ \E i \in DOMAIN value_matrix : value_matrix[i][2] = <<"&">>
  /\ Len(SplitLines(table_output)) = 9

----------------------------------------------------------------------------
(* C14 *)

\* whether sub occurs in s
Contains(s, sub) ==
  \E i \in 1..(Len(s) - Len(sub) + 1) : SubSeq(s, i, i + Len(sub) - 1) = sub

\* a key that begins with "answer" and goes on
AnswerKey(key) == StartsWith(key, Tail(AnswerOpening)) /\ Len(key) >= Len(AnswerOpening)

\* C14 as claimed: after generate, for either format, every answer's key
\* occurs as the literal [key] in the returned body, keys that begin with
\* "answer" included.
C14_KeysAppearInBody ==
  gen_pc = "done" =>
    \A i \in DOMAIN self_answers :
      Contains(gen_result.question_body, Placeholder(self_answers[i].key))

\* C14 as amended: after generate for CANVAS every answer's key occurs as the
\* literal [key] in the returned body, keys that begin with "answer"
\* included; after generate for LATEX no placeholder whose key is "answer"
\* followed by further characters is left in the body.
C14_KeysAppearInCanvasBody ==
  gen_pc = "done" =>
    \A i \in DOMAIN self_answers :
      /\ gen_format = "CANVAS" =>
            Contains(gen_result.question_body, Placeholder(self_answers[i].key))
      /\ (gen_format = "LATEX" /\ AnswerKey(self_answers[i].key)) =>
            ~Contains(gen_result.question_body, Placeholder(self_answers[i].key))

\* a CANVAS body with two blanks on one line, one of them keyed answer1
C14_Witness ==
  /\ gen_pc = "done"
  /\ gen_format = "CANVAS"
  /\ self_class.layout = "inline"
  /\ Len(self_answers) = 2
  /\ \E i \in DOMAIN self_answers : AnswerKey(self_answers[i].key)
  /\ \A i \in DOMAIN self_answers :
        Contains(gen_result.question_body, Placeholder(self_answers[i].key))

----------------------------------------------------------------------------
(* C17 *)

\* C17: when the fingerprint of the generated variation is already in the
\* seen set, the step the loop takes submits nothing and leaves the accepted
\* count and the seen set unchanged; only the attempt counter advances, and
\* the loop is back at the next generation. A submission is only ever made
\* from a variation that was tracked as new.
C17_DuplicateSkipped ==
  [][ /\ (pc = "check" /\ question_fingerprint \in all_variations) =>
            /\ attempt_number' = attempt_number + 1
            /\ pc' = "generate"
            /\ UNCHANGED <<variation_count, all_variations, requests, groups,
                           question_i>>
      /\ requests' # requests =>
            pc = "push" /\ question_fingerprint \in all_variations ]_vars

\* a duplicate was skipped for a question that already has an accepted
\* variation: more generations than submissions
C17_Witness ==
  /\ pc = "generate"
  /\ variation_count >= 1
  /\ question_fingerprint \in all_variations
  /\ generations > Cardinality(CallsOf(question_i))
  /\ generations = attempt_number

----------------------------------------------------------------------------
(* C18 *)

\* the accepted count has reached num_variations or possible_variations
AcceptedEnough(count, pv) == count >= num_variations \/ (pv.finite /\ count >= pv.n)

\* C18: a question's loop ends at the first of: the accepted count reaches
\* num_variations, it reaches possible_variations, the attempt ceiling is
\* exhausted; once the accepted count satisfies either condition no
\* generation and no create_question call is made for the question.
C18_StopsAtFirstEvent ==
  [][ /\ (generations' = generations + 1 \/ requests' # requests) =>
            ~AcceptedEnough(variation_count, question.possible_variations)
      /\ question_i' # question_i =>
            \/ AcceptedEnough(variation_count', question.possible_variations)
            \/ attempt_number >= QUESTION_VARIATIONS_TO_TRY ]_vars

----------------------------------------------------------------------------
(* C19 *)

\* C19: one question group is created per question before any of its
\* variations is submitted, and every payload handed to create_question
\* carries the id of the group of the question being processed, never an
\* earlier group's id and never none.
C19_PayloadInOwnGroup ==
  [][ /\ requests' # requests =>
            /\ Len(groups) = question_i
            /\ groups[question_i].name = question.name
            /\ requests'[Len(requests')].quiz_group_id = question_i
            /\ requests'[Len(requests')].quiz_group_id # NoGroup
      /\ Len(groups') = (IF pc' = "group" THEN question_i' - 1
                         ELSE IF pc' = "done" THEN Len(quiz) ELSE question_i') ]_vars

\* the second question of a quiz has a variation submitted under its own
\* group after the first question had one under the first group
C19_Witness ==
  /\ question_i = 2
  /\ pc = "generate"
  /\ Len(groups) = 2
  /\ CallsOf(1) # {}
  /\ CallsOf(2) # {}
  /\ \A i \in DOMAIN requests : requests[i].quiz_group_id \in {1, 2}

----------------------------------------------------------------------------
(* C20 *)

----------------------------------------------------------------------------
(* C21 *)

\* what generate(output_format) returns of the draw fields
RenderedOf(cls, fields, output_format) ==
  [ question_body |->
      GetHeader(output_format)
        \o GetBody(cls, fields, AnswersOf(cls, fields), output_format)
        \o GetFooter(output_format),
    question_explanation |->
      IF output_format = "CANVAS"
      THEN PandocConvert(GetExplanation(cls, fields, output_format), "html")
      ELSE <<>>,
    answers |-> GetAnswers(AnswersOf(cls, fields)) ]

\* generate is past its instantiate loop
PastLoop ==
  /\ gen_call \in {"generate", "get__canvas"}
  /\ gen_pc \in {"render", "done", "get_answers", "returned"}

\* C21: generate renders nothing before it has called instantiate(); when
\* it leaves the loop it has called instantiate() once for every
\* is_interesting() it asked, every answer but the last was false and the
\* last was true, so that with the default is_interesting there was exactly
\* one instantiate(); and the body, explanation and answers it returns are
\* those of the fields the last instantiate() left, which are interesting.
C21_InstantiateUntilInteresting ==
  /\ (gen_call \in {"generate", "get__canvas"}
        /\ gen_pc \in {"instantiate", "interesting", "render"})
       => gen_result = NoResult
  /\ PastLoop =>
       /\ instantiate_calls >= 1
       /\ instantiate_calls = Len(interesting_results)
       /\ \A k \in DOMAIN interesting_results :
             interesting_results[k] <=> (k = Len(interesting_results))
       /\ IsInteresting(self_class, self_fields)
       /\ self_answers = AnswersOf(self_class, self_fields)
       /\ self_class.rejects = {} => instantiate_calls = 1
  /\ (PastLoop /\ gen_pc # "render") =>
       /\ rendered_fields = self_fields
       /\ gen_result = RenderedOf(self_class, self_fields, gen_format)

\* generate has returned after two draws that were not interesting and a
\* third that was
C21_Witness ==
  /\ gen_call = "generate"
  /\ gen_pc = "done"
  /\ self_class.rejects # {}
  /\ instantiate_calls = 3
  /\ interesting_results = <<FALSE, FALSE, TRUE>>
  /\ gen_result.answers # <<>>
  /\ gen_result = RenderedOf(self_class, self_fields, gen_format)

----------------------------------------------------------------------------
(* C22 *)

\* C22: whatever methods have been called, self.answers is empty before the
\* first instantiate() and afterwards holds the answers of the last
\* instantiate() and nothing else: one answer per key of the class, none for
\* a class that keeps the instantiate() of Question.
C22_AnswersOfLastInstantiate ==
  /\ (gen_calls = 0 \/ (gen_calls = 1 /\ instantiate_calls = 0)) => self_answers = <<>>
  /\ (instantiate_calls >= 1 \/ self_fields # NoFields) =>
       /\ self_answers = AnswersOf(self_class, self_fields)
       /\ self_class.class = "Blanks" => Len(self_answers) = Len(self_class.keys)
       /\ self_class.class = "BitsAndBytes" => Len(self_answers) = 1
       /\ self_class.class = "Static" => self_answers = <<>>
       /\ \A i, j \in DOMAIN self_answers :
             i # j => self_answers[i].key # self_answers[j].key

\* a second method has instantiated the Question, which held the answers of
\* another draw
C22_Witness ==
  /\ gen_calls = 2
  /\ gen_pc \in {"done", "instantiated"}
  /\ previous_answers # <<>>
  /\ previous_answers # self_answers
  /\ Len(self_answers) = Len(previous_answers)
  /\ self_answers = AnswersOf(self_class, self_fields)

----------------------------------------------------------------------------
(* C25 *)

\* C25: in the payload get__canvas returns, question_text, the explanation
\* and answers are those of one draw, the one the body was rendered of: no
\* instantiate() ran after the loop of generate, and the Question still
\* holds that draw.
C25_PayloadOfOneDraw ==
  (gen_call = "get__canvas" /\ gen_pc = "returned") =>
    /\ canvas_payload.question_text
         = RenderedOf(self_class, rendered_fields, "CANVAS").question_body
    /\ canvas_payload.neutral_comments_html
         = RenderedOf(self_class, rendered_fields, "CANVAS").question_explanation
    /\ canvas_payload.answers = GetAnswers(AnswersOf(self_class, rendered_fields))
    /\ instantiate_calls = Len(interesting_results)
    /\ self_fields = rendered_fields

\* get__canvas has returned the payload of a BitsAndBytes that held another
\* draw's answer before
C25_Witness ==
  /\ gen_call = "get__canvas"
  /\ gen_pc = "returned"
  /\ self_class.class = "BitsAndBytes"
  /\ previous_answers # <<>>
  /\ previous_answers # self_answers
  /\ Len(canvas_payload.answers) = 1
  /\ canvas_payload.answers = GetAnswers(self_answers)
  /\ Contains(canvas_payload.question_text, Placeholder(self_answers[1].key))
  /\ canvas_payload.neutral_comments_html # <<>>

----------------------------------------------------------------------------
(* C23 *)

\* the positions of the tables among lines, in order
TablesOf(lines) == { i \in DOMAIN lines : lines[i].table }
NthTable(lines, k) ==
  CHOOSE i \in TablesOf(lines) : Cardinality({ j \in TablesOf(lines) : j <= i }) = k

\* the markup lines before the first table (k = 1), between the tables
\* k - 1 and k, or after the last one, each as it is added to the buffer
ChunkOf(lines, k, output_format) ==
  LET t == Cardinality(TablesOf(lines))
      from == IF k = 1 THEN 1 ELSE NthTable(lines, k - 1) + 1
      to == IF k = t + 1 THEN Len(lines) ELSE NthTable(lines, k) - 1
  IN Flatten([i \in 1..(to - from + 1) |->
                MarkupLine(lines[from + i - 1].text, output_format) \o NewLine])

\* the 2t+1 parts: the k-th chunk converted, then the k-th table
PartsOf(lines, output_format) ==
  LET t == Cardinality(TablesOf(lines))
  IN [p \in 1..(2 * t + 1) |->
        IF p % 2 = 1
        THEN PandocConvert(ChunkOf(lines, (p + 1) \div 2, output_format),
                           PandocTarget(output_format))
        ELSE NewLine \o GenerateTable(lines[NthTable(lines, p \div 2)].headers,
                                      lines[NthTable(lines, p \div 2)].value_matrix,
                                      output_format) \o NewLine]

\* every markup line is handed to the converter in exactly one chunk, in
\* order; the buffer is empty right after the flush at a table; there are
\* 2t+1 parts, chunks and tables in turn
ChunksAndTables ==
  /\ (conv_pc = "loop" /\ conv_i > 1 /\ conv_lines[conv_i - 1].table)
       => conv_curr_part = <<>>
  /\ conv_pc = "done" =>
       LET t == Cardinality(TablesOf(conv_lines))
       IN /\ Len(converted) = t + 1
          /\ \A k \in 1..(t + 1) : converted[k] = ChunkOf(conv_lines, k, conv_format)
          /\ Len(conv_parts) = 2 * t + 1
          /\ conv_parts = PartsOf(conv_lines, conv_format)

\* C23 as claimed: the returned text is the join of the 2t+1 parts, for
\* either format.
C23_JoinOfParts ==
  /\ ChunksAndTables
  /\ conv_pc = "done" =>
       conv_body = JoinWith(NewLine, PartsOf(conv_lines, conv_format))

\* C23 as amended: for CANVAS the returned text is the join of the 2t+1
\* parts; for LATEX it is that join with the placeholders left in it
\* replaced by answer blanks, which leaves the converted chunks as they are
\* and can only change the tables.
C23_JoinOfPartsThenBlanks ==
  /\ ChunksAndTables
  /\ (conv_pc = "done" /\ conv_format = "CANVAS") =>
       conv_body = JoinWith(NewLine, PartsOf(conv_lines, conv_format))
  /\ (conv_pc = "done" /\ conv_format = "LATEX") =>
       /\ conv_body = SubAnswerBlank(JoinWith(NewLine, PartsOf(conv_lines, conv_format)))
       /\ conv_body
            = JoinWith(NewLine,
                [p \in DOMAIN conv_parts |->
                   IF p % 2 = 1 THEN conv_parts[p] ELSE SubAnswerBlank(conv_parts[p])])

\* a LATEX text of three parts whose table held a placeholder, between two
\* chunks that are not empty
C23_Witness ==
  /\ conv_pc = "done"
  /\ conv_format = "LATEX"
  /\ Len(conv_lines) = 3
  /\ Len(conv_parts) = 3
  /\ conv_parts[1] # <<>>
  /\ conv_parts[3] # <<>>
  /\ Contains(conv_parts[2], Placeholder(<<"a", "n", "s", "w", "e", "r", "1">>))
  /\ conv_body # JoinWith(NewLine, conv_parts)

----------------------------------------------------------------------------
(* C24 *)

\* where a placeholder [answer*] ends that begins at position i of text, 0
\* if none does: "[answer", characters that are neither white space nor
\* brackets, none included, and the first "]"
PlaceholderEnd(text, i) ==
  LET after == i + Len(AnswerOpening)
      closing == { j \in after..Len(text) :
                     /\ text[j] = "]"
                     /\ \A k \in after..(j - 1) :
                           text[k] \notin WhiteSpace \cup {"[", "]"} }
  IN IF /\ after - 1 <= Len(text)
        /\ SubSeq(text, i, after - 1) = AnswerOpening
        /\ closing # {}
     THEN CHOOSE j \in closing : \A k \in closing : j <= k
     ELSE 0

\* how many placeholders, and how many answer blanks, a text holds
PlaceholderCount(text) ==
  Cardinality({ i \in DOMAIN text : PlaceholderEnd(text, i) # 0 })
BlankCount(text) ==
  Cardinality({ i \in DOMAIN text :
                  /\ i + Len(AnswerBlank) - 1 <= Len(text)
                  /\ SubSeq(text, i, i + Len(AnswerBlank) - 1) = AnswerBlank })

\* the markup lines of lines, one after the other
MarkupOf(lines) ==
  Flatten([i \in DOMAIN lines |->
             IF lines[i].table THEN <<>> ELSE lines[i].text \o NewLine])

\* no cell of a table of lines holds a placeholder
PlainTables(lines) ==
  \A i \in TablesOf(lines) :
    \A r \in DOMAIN lines[i].value_matrix :
      \A c \in DOMAIN lines[i].value_matrix[r] :
        PlaceholderCount(lines[i].value_matrix[r][c]) = 0

\* C24 as claimed: the text returned for LATEX holds one answer blank for
\* each placeholder [answer*] of the markup lines, a bare [answer] and
\* several placeholders of one line included; the text returned for CANVAS
\* holds every placeholder of the markup lines as it was and no answer
\* blank.
C24_OneBlankPerPlaceholder ==
  (conv_pc = "done" /\ PlainTables(conv_lines)) =>
    /\ conv_format = "LATEX" =>
         BlankCount(conv_body) = PlaceholderCount(MarkupOf(conv_lines))
    /\ conv_format = "CANVAS" =>
         /\ PlaceholderCount(conv_body) = PlaceholderCount(MarkupOf(conv_lines))
         /\ BlankCount(conv_body) = 0

----------------------------------------------------------------------------
(* C26 *)

\* C26 as claimed: when push_feedback has finished, by returning or by an
\* upload that raised, none of the files upload_buffer_as_file wrote is in
\* the directory.
C26_NoFileLeft ==
  fb_pc \in {"returned", "raised"} => disk \cap written = {}

====
